---- MODULE Spec2Model ----
(***************************************************************************)
(* Adaptive quality controller of the grass/wind renderer:                 *)
(*   QualityManager     src/js/utils/QualityManager.js                     *)
(*   PerformanceMonitor src/js/utils/PerformanceMonitor.js                 *)
(*                                                                         *)
(* Times are JavaScript doubles in milliseconds.  They are modelled as     *)
(* whole milliseconds: the moving average v*0.95 + x*0.05 is rounded to    *)
(* the nearest millisecond, and a comparison with a fractional constant    *)
(* (16.8 ms, 1000/median) is done exactly by cross-multiplication.         *)
(***************************************************************************)
EXTENDS Integers, Sequences, FiniteSets, TLC

\* ------------------------------------------------------------------ bounds
NumCallbacks == 2     \* distinct subscriber callbacks
MaxGood == 2          \* consecutiveGoodFrames is tracked up to this value
MaxSamples == 11      \* benchmark samples recorded at most
MaxCores == 8         \* largest navigator.hardwareConcurrency considered

\* ------------------------------------------------------- QualityManager.js
Tiers == <<"POTATO", "LOW", "MEDIUM", "HIGH", "ULTRA">>

TierNames == {Tiers[i] : i \in 1..Len(Tiers)}

\* names a caller may pass to setTier; "BOGUS" has no profile
InvalidTier == "BOGUS"

\* QualityProfiles (latest revision); maxDPR is kept in hundredths
QualityProfiles ==
  [t \in TierNames |->
     CASE t = "ULTRA"  -> [tier |-> "ULTRA",  grassCount |-> 24000, windResolution |-> 32,
                           bladeSegments |-> 1, maxDPR |-> 200, shadows |-> TRUE,
                           postProcessing |-> FALSE, useDynamicLight |-> TRUE, enableGrass |-> TRUE]
       [] t = "HIGH"   -> [tier |-> "HIGH",   grassCount |-> 12000, windResolution |-> 32,
                           bladeSegments |-> 1, maxDPR |-> 150, shadows |-> FALSE,
                           postProcessing |-> FALSE, useDynamicLight |-> TRUE, enableGrass |-> TRUE]
       [] t = "MEDIUM" -> [tier |-> "MEDIUM", grassCount |-> 6000,  windResolution |-> 16,
                           bladeSegments |-> 1, maxDPR |-> 125, shadows |-> FALSE,
                           postProcessing |-> FALSE, useDynamicLight |-> TRUE, enableGrass |-> TRUE]
       [] t = "LOW"    -> [tier |-> "LOW",    grassCount |-> 3000,  windResolution |-> 8,
                           bladeSegments |-> 1, maxDPR |-> 100, shadows |-> FALSE,
                           postProcessing |-> FALSE, useDynamicLight |-> FALSE, enableGrass |-> FALSE]
       [] OTHER        -> [tier |-> "POTATO", grassCount |-> 500,   windResolution |-> 8,
                           bladeSegments |-> 1, maxDPR |-> 80,  shadows |-> FALSE,
                           postProcessing |-> FALSE, useDynamicLight |-> FALSE, enableGrass |-> FALSE]]

Callbacks == 1..NumCallbacks

\* "no profile delivered yet"
NoProfile == [tier |-> "NONE"]

VARIABLES
  currentTier,            \* QualityManager.currentTier
  listeners,              \* QualityManager.listeners (a Set of callbacks)
  avgFrameTime,           \* PerformanceMonitor.avgFrameTime (smoothed CPU time)
  avgInterval,            \* PerformanceMonitor.avgInterval (smoothed frame interval)
  consecutiveBadFrames,   \* PerformanceMonitor.consecutiveBadFrames
  consecutiveGoodFrames,  \* PerformanceMonitor.consecutiveGoodFrames
  cooldown,               \* PerformanceMonitor.cooldown
  isHidden,               \* PerformanceMonitor.isHidden
  isBenchmarking,         \* PerformanceMonitor.isBenchmarking (undefined = FALSE)
  warmupFrames,           \* PerformanceMonitor.warmupFrames
  frameTimes,             \* PerformanceMonitor.benchmarkData.frameTimes
  cores,                  \* navigator.hardwareConcurrency (0 = not available)
  delivered,              \* per callback: the profile of its latest invocation
  last,                   \* the call that just returned: op, arg, ret, calls, requests
  interrupted,            \* a frame that was not lagging was analysed since
                          \* consecutiveBadFrames last left zero
  caps,                   \* renderer.capabilities.isWebGL2 and renderer.extensions
  windField,              \* the live WindField object (GrassScene.windField)
  velocity,               \* the texels of the render targets rtA and rtB
  lastDraw,               \* the latest draw call of the simulator: target, sampled
  innerWidth,             \* window.innerWidth (px)
  innerHeight,            \* window.innerHeight (px)
  scene,                  \* the GrassScene object, or NoScene before construction
  phase,                  \* main.js start-up: "loading", "calibrating" (the 800 ms
                          \* timer is armed) or "entered" (the timer has fired)
  elapsed                 \* ms from startBenchmark to the latest endFrame while
                          \* the timer is armed, 0 otherwise

qmVars == <<currentTier, listeners>>

pmVars == <<avgFrameTime, avgInterval, consecutiveBadFrames, consecutiveGoodFrames,
            cooldown, isHidden, isBenchmarking, warmupFrames, frameTimes, cores>>

vars == <<currentTier, listeners, avgFrameTime, avgInterval, consecutiveBadFrames,
          consecutiveGoodFrames, cooldown, isHidden, isBenchmarking, warmupFrames,
          frameTimes, cores, delivered, last, interrupted,
          caps, windField, velocity, lastDraw, innerWidth, innerHeight, scene,
          phase, elapsed>>

wfVars == <<caps, windField, velocity, lastDraw>>

sceneVars == <<innerWidth, innerHeight, scene>>

hostVars == <<phase, elapsed>>

ghost == <<interrupted>>

\* Array.prototype.indexOf on the tier list: 0-based, -1 when absent
IndexOf(t) ==
  IF t \in TierNames THEN (CHOOSE i \in 1..Len(Tiers) : Tiers[i] = t) - 1 ELSE -1

\* tiers[i] for a 0-based index
TierAt(i) == Tiers[i + 1]

Max(a, b) == IF a > b THEN a ELSE b

Min(a, b) == IF a < b THEN a ELSE b

NoCalls == [cb \in Callbacks |-> <<>>]

\* detectHardware(): the tier name it passes to setTier
detectHardware(isMobile, isRetina) ==
  IF isMobile THEN "MEDIUM" ELSE IF isRetina THEN "HIGH" ELSE "MEDIUM"

\* setTier without the early return for the current tier
setTier_noSameTierCheck(cur, ls, tierName) ==
  IF tierName \notin DOMAIN QualityProfiles THEN [tier |-> cur, calls |-> NoCalls]
  ELSE [tier  |-> tierName,
        calls |-> [cb \in Callbacks |->
                     IF cb \in ls THEN <<QualityProfiles[tierName]>> ELSE <<>>]]

\* setTier(tierName) from tier `cur` with listener set `ls`:
\* the tier afterwards and the callbacks invoked, each with its arguments
setTier(cur, ls, tierName) ==
  IF tierName \notin DOMAIN QualityProfiles THEN [tier |-> cur, calls |-> NoCalls]
  ELSE IF cur = tierName THEN [tier |-> cur, calls |-> NoCalls]
  ELSE [tier  |-> tierName,
        calls |-> [cb \in Callbacks |->
                     IF cb \in ls THEN <<QualityProfiles[tierName]>> ELSE <<>>]]

\* getProfile()
getProfile(cur) == QualityProfiles[cur]

\* adjustQuality whose index wraps around instead of being clamped
adjustQuality_wrap(cur, ls, direction) ==
  LET currentIndex == IndexOf(cur)
      newIndex == (currentIndex + direction) % Len(Tiers)
  IN  [tier  |-> setTier(cur, ls, TierAt(newIndex)).tier,
       calls |-> setTier(cur, ls, TierAt(newIndex)).calls,
       ret   |-> TRUE]

\* adjustQuality that reports "no change" after a successful step
adjustQuality_retFalse(cur, ls, direction) ==
  LET currentIndex == IndexOf(cur)
      newIndex == Max(0, Min(currentIndex + direction, Len(Tiers) - 1))
  IN  [tier  |-> setTier(cur, ls, TierAt(newIndex)).tier,
       calls |-> setTier(cur, ls, TierAt(newIndex)).calls,
       ret   |-> FALSE]

\* adjustQuality(direction): tier afterwards, callbacks invoked, return value
adjustQuality(cur, ls, direction) ==
  LET currentIndex == IndexOf(cur)
      newIndex == Max(0, Min(currentIndex + direction, Len(Tiers) - 1))
  IN  IF newIndex # currentIndex
        THEN [tier  |-> setTier(cur, ls, TierAt(newIndex)).tier,
              calls |-> setTier(cur, ls, TierAt(newIndex)).calls,
              ret   |-> TRUE]
        ELSE [tier |-> cur, calls |-> NoCalls, ret |-> FALSE]

\* the latest profile each callback has seen after a call that made `calls`
Deliver(d, calls) ==
  [cb \in Callbacks |-> IF calls[cb] = <<>> THEN d[cb] ELSE calls[cb][Len(calls[cb])]]

CallRec(op, arg, before, ret, calls, requests) ==
  [op |-> op, arg |-> arg, before |-> before, ret |-> ret, calls |-> calls,
   requests |-> requests]

\* new QualityManager(): currentTier = 'HIGH', empty listener set, detectHardware()
QMInit ==
  /\ \E isMobile \in BOOLEAN, isRetina \in BOOLEAN :
       currentTier = setTier("HIGH", {}, detectHardware(isMobile, isRetina)).tier
  /\ listeners = {}
  /\ delivered = [cb \in Callbacks |-> NoProfile]
  /\ last = CallRec("new", "", <<"HIGH", {}>>, FALSE, NoCalls, <<>>)

\* qm.setTier(tierName)
SetTier(tierName) ==
  LET r == setTier(currentTier, listeners, tierName) IN
  /\ currentTier' = r.tier
  /\ listeners' = listeners
  /\ delivered' = Deliver(delivered, r.calls)
  /\ last' = CallRec("setTier", tierName, <<currentTier, listeners>>, FALSE, r.calls, <<>>)
  /\ UNCHANGED <<pmVars, ghost, wfVars, sceneVars, hostVars>>

\* subscribe without the immediate callback
Subscribe_noImmediateCall(cb) ==
  /\ listeners' = listeners \cup {cb}
  /\ currentTier' = currentTier
  /\ delivered' = delivered
  /\ last' = CallRec("subscribe", cb, <<currentTier, listeners>>, FALSE, NoCalls, <<>>)
  /\ UNCHANGED <<pmVars, ghost, wfVars, sceneVars, hostVars>>

\* qm.subscribe(callback)
Subscribe(cb) ==
  /\ listeners' = listeners \cup {cb}
  /\ currentTier' = currentTier
  /\ delivered' = [delivered EXCEPT ![cb] = getProfile(currentTier)]
  /\ last' = CallRec("subscribe", cb, <<currentTier, listeners>>, FALSE,
                     [NoCalls EXCEPT ![cb] = <<getProfile(currentTier)>>], <<>>)
  /\ UNCHANGED <<pmVars, ghost, wfVars, sceneVars, hostVars>>

\* the function subscribe() returned, called
Unsubscribe(cb) ==
  /\ listeners' = listeners \ {cb}
  /\ currentTier' = currentTier
  /\ delivered' = delivered
  /\ last' = CallRec("unsubscribe", cb, <<currentTier, listeners>>,
                     cb \in listeners, NoCalls, <<>>)
  /\ UNCHANGED <<pmVars, ghost, wfVars, sceneVars, hostVars>>

\* qm.adjustQuality(direction)
AdjustQuality(direction) ==
  LET r == adjustQuality(currentTier, listeners, direction) IN
  /\ currentTier' = r.tier
  /\ listeners' = listeners
  /\ delivered' = Deliver(delivered, r.calls)
  /\ last' = CallRec("adjustQuality", direction, <<currentTier, listeners>>,
                     r.ret, r.calls, <<>>)
  /\ UNCHANGED <<pmVars, ghost, wfVars, sceneVars, hostVars>>

\* ---------------------------------------------------- PerformanceMonitor.js
\* v * 0.95 + x * 0.05 (exponential moving average, alpha = 0.05)
Ema(v, x) == (v * 95 + x * 5 + 50) \div 100

\* endFrame skips a frame whose interval is above this (ms)
OutlierMs == 500

\* isLagging: avgInterval > 40.0
isLagging(avg) == avg > 40

\* avgInterval < 16.8
isSmooth(avg) == avg * 10 < 168

\* consecutiveBadFrames > 60 triggers the downgrade
BadFrameLimit == 60

\* this.cooldown = 2000
CooldownMs == 2000

\* this.warmupFrames = 30
WarmupFrames == 30

\* sampleCount < 10 defaults to MEDIUM
MinSamples == 10

\* frame intervals the host loop produces (ms): fast, slow, and a resume gap
Intervals == {5, 50, 600}

\* CPU time of a frame whose interval is i: rendering takes half of it
CpuTimes(i) == {i \div 2}

\* a request the monitor sends to the quality manager
Req(fn, arg) == [fn |-> fn, arg |-> arg]

\* new PerformanceMonitor(qualityManager)
PMInit ==
  /\ avgFrameTime = 0
  /\ avgInterval = 0
  /\ consecutiveBadFrames = 0
  /\ consecutiveGoodFrames = 0
  /\ cooldown = 0
  /\ isHidden = FALSE
  /\ isBenchmarking = FALSE
  /\ warmupFrames = 0
  /\ frameTimes = <<>>
  /\ cores \in 0..MaxCores
  /\ interrupted = FALSE

\* the visibilitychange listener; reset() clears consecutiveBadFrames
VisibilityChange ==
  /\ isHidden' = ~isHidden
  /\ consecutiveBadFrames' = IF isHidden' THEN consecutiveBadFrames ELSE 0
  /\ interrupted' = (interrupted /\ isHidden')
  /\ last' = CallRec("visibilitychange", isHidden', <<currentTier, listeners>>, FALSE,
                     NoCalls, <<>>)
  /\ UNCHANGED <<qmVars, avgFrameTime, avgInterval, consecutiveGoodFrames, cooldown,
                 isBenchmarking, warmupFrames, frameTimes, cores, delivered,
                 wfVars, sceneVars, hostVars>>

\* steady state that starts no cooldown after a successful downgrade
steady_noCooldown(avg, bad, good, cool, cur, ls) ==
  IF isLagging(avg)
    THEN IF bad + 1 > BadFrameLimit
           THEN LET r == adjustQuality(cur, ls, -1) IN
                [bad |-> 0, good |-> 0, cool |-> cool,
                 tier |-> r.tier, calls |-> r.calls,
                 requests |-> <<Req("adjustQuality", -1)>>, ret |-> r.ret]
           ELSE [bad |-> bad + 1, good |-> 0, cool |-> cool, tier |-> cur,
                 calls |-> NoCalls, requests |-> <<>>, ret |-> FALSE]
    ELSE IF isSmooth(avg)
      THEN [bad |-> 0, good |-> Min(good + 1, MaxGood), cool |-> cool, tier |-> cur,
            calls |-> NoCalls, requests |-> <<>>, ret |-> FALSE]
      ELSE [bad |-> bad, good |-> good, cool |-> cool, tier |-> cur,
            calls |-> NoCalls, requests |-> <<>>, ret |-> FALSE]

\* steady state that keeps the lag counter when adjustQuality returns false
steady_keepCounter(avg, bad, good, cool, cur, ls) ==
  IF isLagging(avg)
    THEN IF bad + 1 > BadFrameLimit
           THEN LET r == adjustQuality(cur, ls, -1) IN
                IF r.ret
                  THEN [bad |-> 0, good |-> 0, cool |-> CooldownMs,
                        tier |-> r.tier, calls |-> r.calls,
                        requests |-> <<Req("adjustQuality", -1)>>, ret |-> TRUE]
                  ELSE [bad |-> BadFrameLimit, good |-> 0, cool |-> cool,
                        tier |-> r.tier, calls |-> r.calls,
                        requests |-> <<Req("adjustQuality", -1)>>, ret |-> FALSE]
           ELSE [bad |-> bad + 1, good |-> 0, cool |-> cool, tier |-> cur,
                 calls |-> NoCalls, requests |-> <<>>, ret |-> FALSE]
    ELSE IF isSmooth(avg)
      THEN [bad |-> 0, good |-> Min(good + 1, MaxGood), cool |-> cool, tier |-> cur,
            calls |-> NoCalls, requests |-> <<>>, ret |-> FALSE]
      ELSE [bad |-> bad, good |-> good, cool |-> cool, tier |-> cur,
            calls |-> NoCalls, requests |-> <<>>, ret |-> FALSE]

\* steady state with the upgrade branch enabled: a run of more than MaxGood
\* smooth frames requests adjustQuality(+1)
steady_withUpgrades(avg, bad, good, cool, cur, ls) ==
  IF isLagging(avg)
    THEN IF bad + 1 > BadFrameLimit
           THEN LET r == adjustQuality(cur, ls, -1) IN
                IF r.ret
                  THEN [bad |-> 0, good |-> 0, cool |-> CooldownMs,
                        tier |-> r.tier, calls |-> r.calls,
                        requests |-> <<Req("adjustQuality", -1)>>, ret |-> TRUE]
                  ELSE [bad |-> 0, good |-> 0, cool |-> cool,
                        tier |-> r.tier, calls |-> r.calls,
                        requests |-> <<Req("adjustQuality", -1)>>, ret |-> FALSE]
           ELSE [bad |-> bad + 1, good |-> 0, cool |-> cool, tier |-> cur,
                 calls |-> NoCalls, requests |-> <<>>, ret |-> FALSE]
    ELSE IF isSmooth(avg)
      THEN IF good + 1 > MaxGood
             THEN LET r == adjustQuality(cur, ls, 1) IN
                  IF r.ret
                    THEN [bad |-> 0, good |-> MaxGood, cool |-> 3000,
                          tier |-> r.tier, calls |-> r.calls,
                          requests |-> <<Req("adjustQuality", 1)>>, ret |-> TRUE]
                    ELSE [bad |-> 0, good |-> 0, cool |-> cool,
                          tier |-> r.tier, calls |-> r.calls,
                          requests |-> <<Req("adjustQuality", 1)>>, ret |-> FALSE]
             ELSE [bad |-> 0, good |-> good + 1, cool |-> cool, tier |-> cur,
                   calls |-> NoCalls, requests |-> <<>>, ret |-> FALSE]
      ELSE [bad |-> bad, good |-> good, cool |-> cool, tier |-> cur,
            calls |-> NoCalls, requests |-> <<>>, ret |-> FALSE]

\* a monitor that counts the lagging run and starts over at the limit
\* without asking for a step down
steady_noDowngrade(avg, bad, good, cool, cur, ls) ==
  IF isLagging(avg)
    THEN [bad |-> IF bad + 1 > BadFrameLimit THEN 0 ELSE bad + 1, good |-> 0,
          cool |-> cool, tier |-> cur, calls |-> NoCalls, requests |-> <<>>,
          ret |-> FALSE]
    ELSE IF isSmooth(avg)
      THEN [bad |-> 0, good |-> Min(good + 1, MaxGood), cool |-> cool, tier |-> cur,
            calls |-> NoCalls, requests |-> <<>>, ret |-> FALSE]
      ELSE [bad |-> bad, good |-> good, cool |-> cool, tier |-> cur,
            calls |-> NoCalls, requests |-> <<>>, ret |-> FALSE]

\* the steady-state part of analyze(): what it does once the benchmark and
\* cooldown branches have been passed, given the updated avgInterval
steady(avg, bad, good, cool, cur, ls) ==
  IF isLagging(avg)
    THEN IF bad + 1 > BadFrameLimit
           THEN LET r == adjustQuality(cur, ls, -1) IN
                IF r.ret
                  THEN [bad |-> 0, good |-> 0, cool |-> CooldownMs,
                        tier |-> r.tier, calls |-> r.calls,
                        requests |-> <<Req("adjustQuality", -1)>>, ret |-> TRUE]
                  ELSE [bad |-> 0, good |-> 0, cool |-> cool,
                        tier |-> r.tier, calls |-> r.calls,
                        requests |-> <<Req("adjustQuality", -1)>>, ret |-> FALSE]
           ELSE [bad |-> bad + 1, good |-> 0, cool |-> cool, tier |-> cur,
                 calls |-> NoCalls, requests |-> <<>>, ret |-> FALSE]
    ELSE IF isSmooth(avg)
      THEN [bad |-> 0, good |-> Min(good + 1, MaxGood), cool |-> cool, tier |-> cur,
            calls |-> NoCalls, requests |-> <<>>, ret |-> FALSE]
      ELSE [bad |-> bad, good |-> good, cool |-> cool, tier |-> cur,
            calls |-> NoCalls, requests |-> <<>>, ret |-> FALSE]

\* endFrame that samples while the tab is hidden
skipFrame_outlierOnly(hidden, interval) == interval > OutlierMs

\* endFrame's early return: if (this.isHidden || interval > 500) return
skipFrame(hidden, interval) == hidden \/ interval > OutlierMs

\* endFrame() for a frame with the given interval and CPU time: what it does
\* to the monitor, the quality manager and the subscribers
endFrame(interval, cpuTime) ==
  IF skipFrame(isHidden, interval)
    THEN \* skipped: only lastTime moves
         /\ last' = CallRec("endFrame", 0, <<currentTier, listeners>>, FALSE,
                            NoCalls, <<>>)
         /\ UNCHANGED <<qmVars, pmVars, delivered, ghost, wfVars, sceneVars>>
    ELSE
      LET avgF == Ema(avgFrameTime, cpuTime)
          avgI == Ema(avgInterval, interval)
      IN
      /\ avgFrameTime' = avgF
      /\ avgInterval' = avgI
      /\ UNCHANGED <<listeners, isHidden, isBenchmarking, cores, wfVars, sceneVars>>
      /\ IF isBenchmarking
           THEN \* analyze(): benchmark branch
                /\ IF warmupFrames > 0
                     THEN /\ warmupFrames' = warmupFrames - 1
                          /\ frameTimes' = frameTimes
                     ELSE /\ Len(frameTimes) < MaxSamples
                          /\ frameTimes' = Append(frameTimes, interval)
                          /\ warmupFrames' = warmupFrames
                /\ last' = CallRec("endFrame", 0, <<currentTier, listeners>>,
                                   FALSE, NoCalls, <<>>)
                /\ UNCHANGED <<currentTier, consecutiveBadFrames, consecutiveGoodFrames,
                               cooldown, delivered, ghost>>
           ELSE IF cooldown > 0
             THEN \* analyze(): cooldown branch
                  /\ cooldown' = cooldown - avgI
                  /\ last' = CallRec("endFrame", 0, <<currentTier, listeners>>,
                                     FALSE, NoCalls, <<>>)
                  /\ UNCHANGED <<currentTier, consecutiveBadFrames,
                                 consecutiveGoodFrames, warmupFrames, frameTimes,
                                 delivered, ghost>>
             ELSE \* analyze(): steady state
                  LET r == steady(avgI, consecutiveBadFrames, consecutiveGoodFrames,
                                  cooldown, currentTier, listeners)
                  IN
                  /\ consecutiveBadFrames' = r.bad
                  /\ consecutiveGoodFrames' = r.good
                  /\ cooldown' = r.cool
                  /\ currentTier' = r.tier
                  /\ delivered' = Deliver(delivered, r.calls)
                  /\ last' = CallRec("endFrame", 0, <<currentTier, listeners>>,
                                     r.ret, r.calls, r.requests)
                  /\ interrupted' = IF r.bad = 0 THEN FALSE
                                     ELSE interrupted \/ ~isLagging(avgI)
                  /\ UNCHANGED <<warmupFrames, frameTimes>>

\* perfMonitor.endFrame() for a frame with the given interval and CPU time
EndFrame(interval, cpuTime) == endFrame(interval, cpuTime) /\ UNCHANGED hostVars

\* data.sort((a, b) => a - b): insertion of x into an ascending sequence
RECURSIVE Insert(_, _)
Insert(x, sorted) ==
  IF sorted = <<>> THEN <<x>>
  ELSE IF x <= Head(sorted) THEN <<x>> \o sorted
  ELSE <<Head(sorted)>> \o Insert(x, Tail(sorted))

\* data.sort((a, b) => a - b)
RECURSIVE SortAsc(_)
SortAsc(data) ==
  IF data = <<>> THEN <<>> ELSE Insert(Head(data), SortAsc(Tail(data)))

\* data[i] for a 0-based index
At(data, i) == data[i + 1]

\* median = data[Math.floor(sampleCount * 0.5)] of the sorted samples
Median(sorted) == At(sorted, Len(sorted) \div 2)

\* p90 = data[Math.floor(sampleCount * 0.9)] of the sorted samples
P90(sorted) == At(sorted, (Len(sorted) * 9) \div 10)

\* medianFPS < fps, with medianFPS = 1000 / median (Infinity when median is 0)
FpsBelow(median, fps) == 1000 < fps * median

\* tier selection with the breakpoints taken inclusively
rawTier_inclusive(median) ==
  IF 1000 <= 20 * median THEN "POTATO"
  ELSE IF 1000 <= 35 * median THEN "LOW"
  ELSE IF 1000 <= 50 * median THEN "MEDIUM"
  ELSE "HIGH"

\* tier selection whose best result is ULTRA
rawTier_topUltra(median) ==
  IF FpsBelow(median, 20) THEN "POTATO"
  ELSE IF FpsBelow(median, 35) THEN "LOW"
  ELSE IF FpsBelow(median, 50) THEN "MEDIUM"
  ELSE "ULTRA"

\* step 4: tier selected from the median alone
rawTier(median) ==
  IF FpsBelow(median, 20) THEN "POTATO"
  ELSE IF FpsBelow(median, 35) THEN "LOW"
  ELSE IF FpsBelow(median, 50) THEN "MEDIUM"
  ELSE "HIGH"

\* no tail-latency downgrade
p90Tier_noStep(target, p90) == target

\* the tail-latency downgrade: p90 > 60.0 steps a non-POTATO tier down once
p90Tier(target, p90) ==
  IF p90 > 60 /\ target # "POTATO"
    THEN IF IndexOf(target) > 0 THEN TierAt(IndexOf(target) - 1) ELSE target
    ELSE target

\* step 3: cores = navigator.hardwareConcurrency || 4, and the cap it gives
maxTier(hc) ==
  LET c == IF hc = 0 THEN 4 ELSE hc
  IN  IF c < 4 THEN "MEDIUM" ELSE IF c < 8 THEN "HIGH" ELSE "ULTRA"

\* the cap is never applied
capTier_none(target, cap) == target

\* step 5: apply the cap
capTier(target, cap) == IF IndexOf(target) > IndexOf(cap) THEN cap ELSE target

\* endBenchmark that falls back to MEDIUM only below five samples
benchmarkTier_fewerSamples(data, hc) ==
  IF Len(data) < 5 THEN "MEDIUM"
  ELSE LET sorted == SortAsc(data)
       IN  capTier(p90Tier(rawTier(Median(sorted)), P90(sorted)), maxTier(hc))

\* the tier name endBenchmark passes to setTier
benchmarkTier(data, hc) ==
  IF Len(data) < MinSamples THEN "MEDIUM"
  ELSE LET sorted == SortAsc(data)
       IN  capTier(p90Tier(rawTier(Median(sorted)), P90(sorted)), maxTier(hc))

\* startBenchmark that discards no warm-up frames
startBenchmark_noWarmup ==
  /\ isBenchmarking' = TRUE
  /\ frameTimes' = <<>>
  /\ warmupFrames' = 0
  /\ consecutiveBadFrames' = 0
  /\ interrupted' = FALSE
  /\ last' = CallRec("startBenchmark", "", <<currentTier, listeners>>, FALSE,
                     NoCalls, <<>>)
  /\ UNCHANGED <<qmVars, avgFrameTime, avgInterval, consecutiveGoodFrames, cooldown,
                 isHidden, cores, delivered, wfVars, sceneVars>>

\* startBenchmark(); reset() clears consecutiveBadFrames
startBenchmark ==
  /\ isBenchmarking' = TRUE
  /\ frameTimes' = <<>>
  /\ warmupFrames' = WarmupFrames
  /\ consecutiveBadFrames' = 0
  /\ interrupted' = FALSE
  /\ last' = CallRec("startBenchmark", "", <<currentTier, listeners>>, FALSE,
                     NoCalls, <<>>)
  /\ UNCHANGED <<qmVars, avgFrameTime, avgInterval, consecutiveGoodFrames, cooldown,
                 isHidden, cores, delivered, wfVars, sceneVars>>

\* perfMonitor.startBenchmark() while no benchmark is running
StartBenchmark == ~isBenchmarking /\ startBenchmark /\ UNCHANGED hostVars

\* endBenchmark(): the tier it applies and the subscribers it notifies
endBenchmark ==
  /\ LET target == benchmarkTier(frameTimes, cores)
         r == setTier(currentTier, listeners, target)
     IN  /\ isBenchmarking' = FALSE
         /\ frameTimes' = IF Len(frameTimes) < MinSamples THEN frameTimes
                          ELSE SortAsc(frameTimes)
         /\ currentTier' = r.tier
         /\ delivered' = Deliver(delivered, r.calls)
         /\ last' = CallRec("endBenchmark", target, <<currentTier, listeners>>, FALSE,
                            r.calls, <<Req("setTier", target)>>)
  /\ UNCHANGED <<listeners, avgFrameTime, avgInterval, consecutiveBadFrames,
                 consecutiveGoodFrames, cooldown, isHidden, warmupFrames, cores, ghost,
                 wfVars, sceneVars>>

\* perfMonitor.endBenchmark() on a running benchmark
EndBenchmark == isBenchmarking /\ endBenchmark /\ UNCHANGED hostVars

\* ------------------------------------------------------------------ main.js
\* setTimeout(() => { perfMonitor.endBenchmark(); ... }, 800)
TimerMs == 800

\* onReady(): startBenchmark() and the timer armed; `once` listeners and the
\* single direct call make it run one time
OnReady ==
  /\ phase = "loading"
  /\ startBenchmark
  /\ phase' = "calibrating"
  /\ elapsed' = 0

\* a frame loop that keeps running ahead of a timer that is due
Animate_afterTimer(interval, cpuTime) ==
  /\ endFrame(interval, cpuTime)
  /\ phase' = phase
  /\ elapsed' = IF phase = "calibrating" THEN elapsed + interval ELSE 0

\* animate(): one animation frame, which ends in perfMonitor.endFrame().
\* While the timer is armed, a frame callback runs only if it started before
\* the timer was due
Animate(interval, cpuTime) ==
  /\ phase = "calibrating" => elapsed < TimerMs
  /\ endFrame(interval, cpuTime)
  /\ phase' = phase
  /\ elapsed' = IF phase = "calibrating" THEN elapsed + interval ELSE 0

\* the timer callback: endBenchmark(). It runs once 800 ms have passed since
\* onReady, ahead of a frame that would end `nextInterval` after the last one
\* and has not started yet
BenchmarkTimer(nextInterval) ==
  /\ phase = "calibrating"
  /\ elapsed + nextInterval >= TimerMs
  /\ endBenchmark
  /\ phase' = "entered"
  /\ elapsed' = 0

\* ---------------------------------------------------------------- WindField
\* the WebGL extensions the constructor asks the renderer about
ExtNames ==
  {"OES_texture_half_float", "OES_texture_half_float_linear",
   "EXT_color_buffer_half_float", "EXT_color_buffer_float",
   "WEBGL_color_buffer_float"}

\* every renderer: WebGL1 or WebGL2 with any set of the extensions
AllCaps == [isWebGL2 : BOOLEAN, extensions : SUBSET ExtNames]

\* renderer.extensions.has(name)
has(c, name) == name \in c.extensions

\* format selection that takes full float whenever float colour buffers exist
selectFormat_preferFloat(c) ==
  LET isWebGL2 == c.isWebGL2
      hasHalfFloatLinear == isWebGL2 \/ has(c, "OES_texture_half_float_linear")
      hasCBFloat == (isWebGL2 /\ has(c, "EXT_color_buffer_float"))
                    \/ has(c, "WEBGL_color_buffer_float")
  IN  [type   |-> IF hasCBFloat THEN "FloatType" ELSE "HalfFloatType",
       filter |-> IF hasHalfFloatLinear THEN "LinearFilter" ELSE "NearestFilter"]

\* the constructor's choice of render-target type and texture filter
selectFormat(c) ==
  LET isWebGL2 == c.isWebGL2
      hasHalfFloat == isWebGL2 \/ has(c, "OES_texture_half_float")
      hasHalfFloatLinear == isWebGL2 \/ has(c, "OES_texture_half_float_linear")
      hasCBHalfFloat == has(c, "EXT_color_buffer_half_float")
      hasCBFloat == (isWebGL2 /\ has(c, "EXT_color_buffer_float"))
                    \/ has(c, "WEBGL_color_buffer_float")
      rtType == IF ~hasHalfFloat \/ ~(hasCBHalfFloat \/ isWebGL2)
                  THEN (IF hasCBFloat THEN "FloatType" ELSE "HalfFloatType")
                  ELSE "HalfFloatType"
  IN  [type   |-> rtType,
       filter |-> IF hasHalfFloatLinear THEN "LinearFilter" ELSE "NearestFilter"]

\* an optional property of a params object: <<>> is undefined, <<v>> is v
Undefined == <<>>

\* p ?? d
Default(p, d) == IF p = Undefined THEN d ELSE p[1]

\* texture coordinates are kept in units of 1/UvDen, so that the texel centres
\* of every resolution in use (2 .. 256) are whole numbers
UvDen == 512

\* brushPos when no brush is active: new THREE.Vector2(-1, -1)
NoBrush == <<-UvDen, -UvDen>>

RenderTargets == {"rtA", "rtB"}

\* a render target after renderer.clear(): every texel is zero. A field is
\* kept as a function on its non-zero texels
ClearedField == [t \in {} |-> <<0, 0>>]

\* new WindField(renderer, size, params): fractions are in hundredths,
\* velocities in tenths of a world unit, dt in milliseconds
WindField(size, params, c) ==
  [size                 |-> size,
   decay                |-> Default(params.decay, 95),
   diffusion            |-> Default(params.diffusion, 20),
   advection            |-> Default(params.advection, 100),
   injectionRadius      |-> Default(params.injectionRadius, 8),
   injectionStrength    |-> Default(params.injectionStrength, 100),
   injectionStrengthMax |-> Default(params.injectionStrengthMax, 100),
   type                 |-> selectFormat(c).type,
   filter               |-> selectFormat(c).filter,
   read                 |-> "rtA",
   write                |-> "rtB",
   tVelocity            |-> "rtA",
   dt                   |-> 16,
   brushPos             |-> NoBrush,
   brushDir             |-> <<0, 0>>,
   disposed             |-> FALSE]

\* no simulator has been constructed yet
NoWindField == [size |-> 0]

\* clear(): both render targets are cleared
clear == [rt \in RenderTargets |-> ClearedField]

\* get texture(): the texture of the read target
texture(wf) == wf.read

\* dispose()
dispose(wf) == [wf EXCEPT !.disposed = TRUE]

\* integer division truncated toward zero: results are kept on the grid
TruncDiv(n, d) == IF n >= 0 THEN n \div d ELSE -((-n) \div d)

\* clamp(x, lo, hi)
Clamp(x, lo, hi) == Max(lo, Min(x, hi))

\* the texels of a size x size render target
Texels(size) == (0..(size - 1)) \X (0..(size - 1))

\* the width of a texel (uniform texelSize = 1 / size)
texelSize(size) == UvDen \div size

\* vUv at the centre of texel t
vUv(size, t) ==
  <<t[1] * texelSize(size) + texelSize(size) \div 2,
    t[2] * texelSize(size) + texelSize(size) \div 2>>

\* the texel at (ix, iy), coordinates clamped to the edge
fetch(field, size, ix, iy) ==
  LET t == <<Clamp(ix, 0, size - 1), Clamp(iy, 0, size - 1)>>
  IN  IF t \in DOMAIN field THEN field[t] ELSE <<0, 0>>

\* LinearFilter: the four nearest texels blended by the fractional position
\* (fx, fy) inside a cell of width W
bilinear(t00, t10, t01, t11, fx, fy, W) ==
  LET lerp(k) == TruncDiv((W - fx) * (W - fy) * t00[k] + fx * (W - fy) * t10[k]
                          + (W - fx) * fy * t01[k] + fx * fy * t11[k], W * W)
  IN  <<lerp(1), lerp(2)>>

\* texture2D(tVelocity, uv).xy under the render target's filter
sampleVel(field, size, filter, uv) ==
  LET W == texelSize(size) IN
  IF filter = "NearestFilter"
    THEN fetch(field, size, uv[1] \div W, uv[2] \div W)
    ELSE LET cx == uv[1] - W \div 2
             cy == uv[2] - W \div 2
             ix == cx \div W
             iy == cy \div W
         IN  bilinear(fetch(field, size, ix, iy), fetch(field, size, ix + 1, iy),
                      fetch(field, size, ix, iy + 1), fetch(field, size, ix + 1, iy + 1),
                      cx - ix * W, cy - iy * W, W)

\* 1000 * exp(-q / 2) for q = 0, 1, 2, ...; zero from q = 14 on
ExpTable == <<1000, 606, 367, 223, 135, 82, 49, 30, 18, 11, 6, 4, 2, 1>>

\* 1000 * exp(-0.5 * distSq / rSq), with r = max(injectionRadius, 1e-5)
brushWeight(distSq, radius) ==
  IF radius <= 0 THEN (IF distSq = 0 THEN 1000 ELSE 0)
  ELSE LET rSq == (radius * radius * UvDen * UvDen) \div 100
           q == (distSq * 100) \div rSq
       IN  IF q < Len(ExpTable) THEN ExpTable[q + 1] ELSE 0

\* the brush test of the shader: brushPos lies in the unit square
brushActive(pos) ==
  pos[1] >= 0 /\ pos[1] <= UvDen /\ pos[2] >= 0 /\ pos[2] <= UvDen

\* advUV = vUv - advection * dt * velPrev
advUV(here, velPrev, step) ==
  <<here[1] - TruncDiv(step * velPrev[1] * UvDen, 10000),
    here[2] - TruncDiv(step * velPrev[2] * UvDen, 10000)>>

\* the brush injection at vUv: brushDir * min(strength, strengthMax) * w
inject(here, wf) ==
  LET dx == here[1] - wf.brushPos[1]
      dy == here[2] - wf.brushPos[2]
      sw == Min(wf.injectionStrength, wf.injectionStrengthMax)
            * brushWeight(dx * dx + dy * dy, wf.injectionRadius)
  IN  IF brushActive(wf.brushPos)
        THEN <<TruncDiv(wf.brushDir[1] * sw, 100000),
               TruncDiv(wf.brushDir[2] * sw, 100000)>>
        ELSE <<0, 0>>

\* vel = mix(vel, blurred, clamp(diffusion)); vel *= clamp(decay); vel += brush
shade(adv, e, w, n, o, a, d, brush) ==
  LET blurred(k) == TruncDiv(adv[k] + e[k] + w[k] + n[k] + o[k], 5)
      mix(k) == TruncDiv(adv[k] * (100 - a) + blurred(k) * a, 100)
      decayed(k) == TruncDiv(mix(k) * d, 100)
  IN  <<decayed(1) + brush[1], decayed(2) + brush[2]>>

\* fragment shader without the decay factor
main_noDecay(field, wf, t) ==
  LET size == wf.size
      here == vUv(size, t)
      W == texelSize(size)
      s(uv) == sampleVel(field, size, wf.filter, uv)
      step == TruncDiv(wf.advection * wf.dt, 100)
  IN  shade(s(advUV(here, s(here), step)),
            s(<<here[1] + W, here[2]>>), s(<<here[1] - W, here[2]>>),
            s(<<here[1], here[2] + W>>), s(<<here[1], here[2] - W>>),
            Clamp(wf.diffusion, 0, 100), 100, inject(here, wf))

\* fragment shader main(): the velocity written to texel t
main(field, wf, t) ==
  LET size == wf.size
      here == vUv(size, t)
      W == texelSize(size)
      s(uv) == sampleVel(field, size, wf.filter, uv)
      step == TruncDiv(wf.advection * wf.dt, 100)
  IN  shade(s(advUV(here, s(here), step)),
            s(<<here[1] + W, here[2]>>), s(<<here[1] - W, here[2]>>),
            s(<<here[1], here[2] + W>>), s(<<here[1], here[2] - W>>),
            Clamp(wf.diffusion, 0, 100), Clamp(wf.decay, 0, 100), inject(here, wf))

\* the texels of a drawn target that hold a velocity
nonZero(out) == [t \in {u \in DOMAIN out : out[u] # <<0, 0>>} |-> out[t]]

\* renderer.render(scene, camera) into a render target: the shader runs on
\* every texel; only the non-zero texels are kept
render(field, wf) ==
  IF DOMAIN field = {} /\ ~brushActive(wf.brushPos)
    THEN ClearedField   \* a field at rest without a brush stays at rest
    ELSE nonZero([t \in Texels(wf.size) |-> main(field, wf, t)])

\* a null mouseUv
NoUv == <<>>

\* update that leaves the brush uniforms alone when there is no pointer
update_keepBrush(wf, vel, mouseUv, mouseDir, dt) ==
  LET brush == mouseUv # NoUv /\ mouseUv[1] >= 0 /\ mouseUv[2] >= 0
      u == [wf EXCEPT !.tVelocity = wf.read,
                      !.dt = dt,
                      !.brushPos = IF brush THEN mouseUv ELSE wf.brushPos,
                      !.brushDir = IF brush THEN mouseDir ELSE wf.brushDir]
  IN  [wf       |-> [u EXCEPT !.read = wf.write, !.write = wf.read],
       velocity |-> [vel EXCEPT ![wf.write] = render(vel[u.tVelocity], u)],
       draw     |-> [target |-> wf.write, sampled |-> u.tVelocity]]

\* update whose draw call renders into the target it samples
update_inPlace(wf, vel, mouseUv, mouseDir, dt) ==
  LET brush == mouseUv # NoUv /\ mouseUv[1] >= 0 /\ mouseUv[2] >= 0
      u == [wf EXCEPT !.tVelocity = wf.read,
                      !.dt = dt,
                      !.brushPos = IF brush THEN mouseUv ELSE NoBrush,
                      !.brushDir = IF brush THEN mouseDir ELSE <<0, 0>>]
  IN  [wf       |-> u,
       velocity |-> [vel EXCEPT ![wf.read] = render(vel[u.tVelocity], u)],
       draw     |-> [target |-> wf.read, sampled |-> u.tVelocity]]

\* update(mouseUv, mouseDir, dt): set the uniforms, draw into the write
\* target, swap the roles
update(wf, vel, mouseUv, mouseDir, dt) ==
  LET brush == mouseUv # NoUv /\ mouseUv[1] >= 0 /\ mouseUv[2] >= 0
      u == [wf EXCEPT !.tVelocity = wf.read,
                      !.dt = dt,
                      !.brushPos = IF brush THEN mouseUv ELSE NoBrush,
                      !.brushDir = IF brush THEN mouseDir ELSE <<0, 0>>]
  IN  [wf       |-> [u EXCEPT !.read = wf.write, !.write = wf.read],
       velocity |-> [vel EXCEPT ![wf.write] = render(vel[u.tVelocity], u)],
       draw     |-> [target |-> wf.write, sampled |-> u.tVelocity]]

\* no draw call has been made
NoDraw == [target |-> "none", sampled |-> "none", count |-> 0]

\* a WebGL2 renderer with both colour-buffer extensions
DesktopCaps ==
  [isWebGL2 |-> TRUE,
   extensions |-> {"EXT_color_buffer_half_float", "EXT_color_buffer_float"}]

\* before any simulator exists
WFInit ==
  /\ windField = NoWindField
  /\ velocity = clear
  /\ lastDraw = NoDraw

\* new WindField(renderer, size, params), which ends with this.clear()
NewWindField(size, params) ==
  /\ windField = NoWindField
  /\ windField' = WindField(size, params, caps)
  /\ velocity' = clear
  /\ lastDraw' = NoDraw
  /\ last' = CallRec("newWindField", size, <<currentTier, listeners>>, FALSE, NoCalls, <<>>)
  /\ UNCHANGED <<qmVars, pmVars, delivered, ghost, caps, sceneVars, hostVars>>

\* windField.update(mouseUv, mouseDir, dt)
UpdateWindField(mouseUv, mouseDir, dt) ==
  /\ windField # NoWindField
  /\ \E r \in {update(windField, velocity, mouseUv, mouseDir, dt)} :
       /\ windField' = r.wf
       /\ velocity' = r.velocity
       /\ lastDraw' = [target |-> r.draw.target, sampled |-> r.draw.sampled,
                        count |-> lastDraw.count + 1]
  /\ last' = CallRec("updateWindField", dt, <<currentTier, listeners>>, FALSE, NoCalls, <<>>)
  /\ UNCHANGED <<qmVars, pmVars, delivered, ghost, caps, sceneVars, hostVars>>

\* the page before main.js constructs the GrassScene
NoScene == [built |-> FALSE]

SceneAbsent ==
  /\ innerWidth = 1280
  /\ innerHeight = 720
  /\ scene = NoScene

\* the quality manager and the monitor on their own: no scene, no simulator
\* main.js before onReady
HostInit == phase = "loading" /\ elapsed = 0

Detached == caps = DesktopCaps /\ WFInit /\ SceneAbsent /\ HostInit

\* --------------------------------------------------------------- GrassScene
\* Config.Grass: lengths in tenths of a world unit, ratios in hundredths
planeSize == 300

maxGrassCount == 25000

mobileMaxGrassCount == 15000

bladeHeight == 12

maxWindOffset == 100

\* Config.Grass.uniforms as the scene hands them to a WindField; the object
\* has no `decay` property
GrassWindParams ==
  [decay                |-> Undefined,
   diffusion            |-> <<0>>,
   advection            |-> <<100>>,
   injectionRadius      |-> <<3>>,
   injectionStrength    |-> <<1000>>,
   injectionStrengthMax |-> <<100>>]

\* window.devicePixelRatio (hundredths)
devicePixelRatio == 200

\* the scene holds no grass mesh
NoGrass == [count |-> -1]

\* a null lastGroundPoint
NoPoint == <<>>

\* the pointer ray misses the ground plane
OffGround == <<>>

\* window.innerWidth / window.innerHeight, in hundredths
aspectOf(width, height) == (width * 100) \div height

\* initGrass(): a new InstancedMesh with maxClumpCount instances, all active
initGrass(clumpSize, width) ==
  LET isMobile == width < 768
      maxTotalBlades == IF isMobile THEN mobileMaxGrassCount ELSE maxGrassCount
      maxClumpCount == (maxTotalBlades + clumpSize - 1) \div clumpSize
  IN  [count         |-> maxClumpCount,
       maxClumpCount |-> maxClumpCount,
       clumpSize     |-> clumpSize,
       visible       |-> TRUE,
       builtWidth    |-> width,
       laidOut       |-> 0,
       layout        |-> <<<<maxClumpCount, 0>>>>]

\* the instance matrices after the first n instances were written for extent e;
\* layout is a sequence of <<upTo, extentX>>: the instances up to index upTo
\* (and after the previous entry's) carry a matrix computed for extentX, and
\* extentX = 0 stands for the identity matrix a new InstancedMesh starts with
setMatrices(layout, n, e) ==
  LET rest == SelectSeq(layout, LAMBDA seg : seg[1] > n)
  IN  IF n = 0 THEN layout
      ELSE IF rest # <<>> /\ rest[1][2] = e THEN rest
      ELSE <<<<n, e>>>> \o rest

\* layoutGrass(): a matrix is written for each of the grass.count active
\* instances, from the ground's current extent planeSize * ground.scale.x
layoutGrass(grass, groundScaleX) ==
  [grass EXCEPT !.laidOut = grass.count,
                !.layout = setMatrices(grass.layout, grass.count,
                                       (planeSize * groundScaleX) \div 100)]

\* applyDPR(targetDPR): the renderer's pixel ratio afterwards
applyDPR(pixelRatio, targetDPR) ==
  LET dpr == Min(devicePixelRatio, targetDPR)
  IN  IF dpr - pixelRatio > 1 \/ pixelRatio - dpr > 1 THEN dpr ELSE pixelRatio

\* profile.clumpSize || 10 (the profiles define no clumpSize)
clumpSizeOf(profile) ==
  IF "clumpSize" \in DOMAIN profile THEN profile.clumpSize ELSE 10

\* a notification handler that rebuilds the geometry every time
needRebuild_always(sc, profile) == TRUE

\* needRebuild = this.currentClumpSize !== newClumpSize
needRebuild(sc, profile) == sc.currentClumpSize # clumpSizeOf(profile)

\* the texture object windField.texture returns: a render target of one
\* particular simulator (a simulator is only ever replaced by one of another
\* resolution, so the resolution tells the old one's targets from the new one's)
textureObject(wf) == [sim |-> wf.size, target |-> texture(wf)]

\* this.windResolution !== profile.windResolution
needsReinit(sc, profile) == sc.windResolution # profile.windResolution

\* onQualityChange(profile) on scene sc with simulator wf and render-target
\* contents vel: the scene, the simulator and the contents afterwards,
\* whether initGrass ran and which simulator was disposed
onQualityChange(sc, wf, vel, draw, profile, width, c) ==
  LET isEnabled == profile.enableGrass # FALSE
      shown == IF sc.grass # NoGrass THEN [sc.grass EXCEPT !.visible = isEnabled]
               ELSE sc.grass
      newClumpSize == clumpSizeOf(profile)
      rebuild == needRebuild(sc, profile)
      grass == IF rebuild
                 THEN layoutGrass(initGrass(newClumpSize, width), sc.groundScaleX)
               ELSE IF shown # NoGrass
                 THEN [shown EXCEPT !.count =
                         Min(profile.grassCount, sc.maxGrassCount) \div newClumpSize]
               ELSE shown
      reinit == needsReinit(sc, profile)
      newWf == IF reinit THEN WindField(profile.windResolution, GrassWindParams, c)
               ELSE wf
  IN  IF ~isEnabled
        THEN [scene    |-> [sc EXCEPT !.isEnabled = FALSE, !.grass = shown],
              wf       |-> wf,
              velocity |-> vel,
              draw     |-> draw,
              rebuilt  |-> FALSE,
              disposed |-> NoWindField]
        ELSE [scene    |-> [sc EXCEPT !.isEnabled = TRUE,
                                      !.currentClumpSize = newClumpSize,
                                      !.uClumpSpread = 300,
                                      !.grass = grass,
                                      !.windResolution = profile.windResolution,
                                      !.windTex = IF reinit THEN textureObject(newWf)
                                                  ELSE sc.windTex,
                                      !.targetDPR = profile.maxDPR,
                                      !.pixelRatio = applyDPR(sc.pixelRatio, profile.maxDPR)],
              wf       |-> newWf,
              velocity |-> IF reinit THEN clear ELSE vel,
              draw     |-> IF reinit THEN NoDraw ELSE draw,
              rebuilt  |-> rebuild,
              disposed |-> IF reinit THEN dispose(wf) ELSE NoWindField]

\* the GrassScene after its constructor has run initCamera and init up to the
\* subscription: a 256 x 256 simulator, no mesh, no clump size
constructed(width, height) ==
  [built            |-> TRUE,
   isEnabled        |-> TRUE,
   maxGrassCount    |-> maxGrassCount,
   windResolution   |-> 256,
   currentClumpSize |-> 0,
   grass            |-> NoGrass,
   initialAspect    |-> aspectOf(width, height),
   cameraAspect     |-> aspectOf(width, height),
   groundScaleX     |-> aspectOf(width, height),
   uClumpSpread     |-> 50,
   windTex          |-> [sim |-> 256, target |-> "rtA"],
   scrollOffsetNorm |-> 0,
   time             |-> 0,
   targetScrollY    |-> 0,
   currentScrollY   |-> 0,
   isHovering       |-> FALSE,
   mouse            |-> OffGround,
   lastGroundPoint  |-> NoPoint,
   handed           |-> <<0, 0>>,
   effectiveZ       |-> <<>>,
   targetDPR        |-> 100,
   pixelRatio       |-> 100,
   rebuilt          |-> FALSE,
   disposed         |-> NoWindField]

\* new GrassScene(renderer, qualityManager): the constructor ends in
\* qm.subscribe, which calls onQualityChange with the current profile
NewGrassScene ==
  /\ scene = NoScene
  /\ LET wf0 == WindField(256, GrassWindParams, caps)
         r == onQualityChange(constructed(innerWidth, innerHeight), wf0, clear, NoDraw,
                              getProfile(currentTier), innerWidth, caps)
     IN  /\ scene' = [r.scene EXCEPT !.rebuilt = r.rebuilt, !.disposed = r.disposed]
         /\ windField' = r.wf
         /\ velocity' = r.velocity
         /\ lastDraw' = r.draw
  /\ last' = CallRec("newGrassScene", currentTier, <<currentTier, listeners>>, FALSE,
                     NoCalls, <<>>)
  /\ UNCHANGED <<qmVars, pmVars, delivered, ghost, caps, innerWidth, innerHeight, hostVars>>

\* qm.setTier(tierName) with the scene subscribed: a change of tier notifies
\* the scene's onQualityChange with the new profile
QualityChange(tierName) ==
  /\ scene # NoScene
  /\ LET q == setTier(currentTier, listeners, tierName)
         r == onQualityChange(scene, windField, velocity, lastDraw,
                              QualityProfiles[q.tier], innerWidth, caps)
     IN  /\ q.tier # currentTier
         /\ currentTier' = q.tier
         /\ delivered' = Deliver(delivered, q.calls)
         /\ scene' = [r.scene EXCEPT !.rebuilt = r.rebuilt, !.disposed = r.disposed]
         /\ windField' = r.wf
         /\ velocity' = r.velocity
         /\ lastDraw' = r.draw
         /\ last' = CallRec("onQualityChange", q.tier, <<currentTier, listeners>>, FALSE,
                            q.calls, <<>>)
  /\ UNCHANGED <<listeners, pmVars, ghost, caps, innerWidth, innerHeight, hostVars>>

\* Config.Grass.scrollNormPerPixel, in ten-thousandths
scrollNormPerPixel == 5

\* normalized scroll offsets and instance depths are kept in units of 1/ScrollDen
ScrollDen == 1000000

\* the JavaScript remainder x % m: the sign follows x
JsRem(x, m) == IF x >= 0 THEN x % m ELSE -((-x) % m)

\* scroll normalisation that saturates at the end of the plane
scrollOffsetNormZ_saturate(scrollY, width, height) ==
  Clamp(scrollY * scrollNormPerPixel * Min(aspectOf(width, height), 150),
        0, ScrollDen - 1)

\* update(): currentScrollY * scrollNormPerPixel * min(aspect, 1.5), then % 1
scrollOffsetNormZ(scrollY, width, height) ==
  JsRem(scrollY * scrollNormPerPixel * Min(aspectOf(width, height), 150), ScrollDen)

\* vertex shader: fract(zNorm - scrollOffsetNorm + 0.5) - 0.5
wrapZ(zNorm, scrollOffsetNorm) ==
  ((zNorm - scrollOffsetNorm + ScrollDen \div 2) % ScrollDen) - ScrollDen \div 2

\* the home depths basePos.z / extentZ of some instances, in [-0.5, 0.5)
HomeZ == <<-500000, -120000, 0, 333333, 499999>>

\* render(): the effective depth the vertex shader gives each instance
effectiveZ(scrollOffsetNorm) ==
  [i \in 1..Len(HomeZ) |-> wrapZ(HomeZ[i], scrollOffsetNorm)]

\* dir.length() > len
longerThan(v, len) == v[1] * v[1] + v[2] * v[2] > len * len

\* dir.setLength(len): the vector scaled to length len, each component
\* truncated to the grid
setLength(v, len) ==
  LET sq == v[1] * v[1] + v[2] * v[2]
      comp(k) ==
        LET a == IF v[k] >= 0 THEN v[k] ELSE -v[k]
            j == CHOOSE n \in 0..len :
                   /\ n * n * sq <= a * a * len * len
                   /\ (n + 1) * (n + 1) * sq > a * a * len * len
        IN  IF v[k] >= 0 THEN j ELSE -j
  IN  <<comp(1), comp(2)>>

\* the pointer displacement passed on as it is
clampDir_none(dir) == dir

\* if (dir.length() > maxLen) dir.setLength(maxLen), with
\* maxLen = bladeHeight * maxWindOffset
clampDir(dir) ==
  LET maxLen == (bladeHeight * maxWindOffset) \div 100
  IN  IF longerThan(dir, maxLen) THEN setLength(dir, maxLen) ELSE dir

\* an update that does not hand the new read target to the blades
bindWind_stale(sc, r) ==
  [scene    |-> sc,
   wf       |-> r.wf,
   velocity |-> r.velocity,
   draw     |-> r.draw]

\* windField.update(...) is followed by uniforms.windTex.value =
\* windField.texture: the blades sample the target just drawn
bindWind(sc, r) ==
  [scene    |-> [sc EXCEPT !.windTex = textureObject(r.wf)],
   wf       |-> r.wf,
   velocity |-> r.velocity,
   draw     |-> r.draw]

\* updateScrollState(scrollY); update(time, dt); render(), as the frame loop
\* calls them when the grass scene is the one on screen
frame(sc, wf, vel, scrollY, time, dt, width, height) ==
  LET norm == scrollOffsetNormZ(scrollY, width, height)
      extentX == (planeSize * sc.groundScaleX) \div 100
      extentZ == planeSize
      p == IF sc.isHovering THEN sc.mouse ELSE OffGround
      mouseUv == IF p = OffGround THEN NoUv
                 ELSE <<Clamp(TruncDiv(p[1] * UvDen, extentX) + UvDen \div 2, 0, UvDen),
                        Clamp(TruncDiv(p[2] * UvDen, extentZ) + UvDen \div 2, 0, UvDen)>>
      dir == IF p # OffGround /\ sc.lastGroundPoint # NoPoint
               THEN clampDir(<<p[1] - sc.lastGroundPoint[1],
                               p[2] - sc.lastGroundPoint[2]>>)
               ELSE <<0, 0>>
  IN  bindWind([sc EXCEPT !.targetScrollY = scrollY,
                           !.currentScrollY = scrollY,
                           !.scrollOffsetNorm = norm,
                           !.time = time,
                           !.lastGroundPoint = IF p = OffGround THEN NoPoint ELSE p,
                           !.handed = dir,
                           !.effectiveZ = effectiveZ(norm)],
               update(wf, vel, mouseUv, dir, dt))

\* one pass of the frame loop over the grass scene
Frame(scrollY, dt) ==
  /\ scene # NoScene
  /\ \E r \in {frame(scene, windField, velocity, scrollY, scene.time + 1, dt,
                      innerWidth, innerHeight)} :
         /\ scene' = r.scene
         /\ windField' = r.wf
         /\ velocity' = r.velocity
         /\ lastDraw' = [target |-> r.draw.target, sampled |-> r.draw.sampled,
                         count |-> lastDraw.count + 1]
  /\ last' = CallRec("frame", <<scene.currentScrollY, scrollY>>,
                     <<currentTier, listeners>>, FALSE, NoCalls, <<>>)
  /\ UNCHANGED <<qmVars, pmVars, delivered, ghost, caps, innerWidth, innerHeight, hostVars>>

\* onPointerMove / onTouchMove: ignored up to 1024 px; otherwise the pointer
\* ray now meets the ground at `point` (or misses it)
PointerMove(point) ==
  /\ scene # NoScene
  /\ scene' = IF innerWidth <= 1024 THEN scene
              ELSE [scene EXCEPT !.mouse = point, !.isHovering = TRUE]
  /\ last' = CallRec("pointerMove", point, <<currentTier, listeners>>, FALSE,
                     NoCalls, <<>>)
  /\ UNCHANGED <<qmVars, pmVars, delivered, ghost, wfVars, innerWidth, innerHeight, hostVars>>

\* onPointerOut with no relatedTarget
PointerOut ==
  /\ scene # NoScene
  /\ scene' = [scene EXCEPT !.isHovering = FALSE, !.lastGroundPoint = NoPoint]
  /\ last' = CallRec("pointerOut", 0, <<currentTier, listeners>>, FALSE,
                     NoCalls, <<>>)
  /\ UNCHANGED <<qmVars, pmVars, delivered, ghost, wfVars, innerWidth, innerHeight, hostVars>>

\* updateGroundToViewport(): the ground keeps its initial aspect on a narrow
\* window and follows the camera's aspect otherwise
updateGroundToViewport(sc, width) ==
  IF width < 768 THEN sc.initialAspect ELSE sc.cameraAspect

\* resize(width, height): camera aspect, ground scale, then layoutGrass
resize(sc, width, height) ==
  LET cam == [sc EXCEPT !.cameraAspect = aspectOf(width, height)]
      scaleX == updateGroundToViewport(cam, width)
  IN  [cam EXCEPT !.groundScaleX = scaleX,
                  !.grass = layoutGrass(sc.grass, scaleX)]

\* the window's resize event: onResize ignores a change of width of less than
\* 2 px and otherwise resizes the scenes to the container, which fills the
\* window; the scene holds a mesh from its construction on
Resize(width, height) ==
  /\ scene # NoScene
  /\ scene.grass # NoGrass
  /\ <<width, height>> # <<innerWidth, innerHeight>>
  /\ innerWidth' = width
  /\ innerHeight' = height
  /\ scene' = IF width - innerWidth < 2 /\ innerWidth - width < 2
                THEN scene
                ELSE resize(scene, width, height)
  /\ last' = CallRec("resize", <<width, height>>, <<currentTier, listeners>>, FALSE,
                     NoCalls, <<>>)
  /\ UNCHANGED <<qmVars, pmVars, delivered, ghost, wfVars, hostVars>>

\* ------------------------------------------------------------ specifications
\* the quality manager driven through its public interface
InitQM == QMInit /\ PMInit /\ cores = 4 /\ Detached

NextQM ==
  \/ \E t \in TierNames \cup {InvalidTier} : SetTier(t)
  \/ \E cb \in Callbacks : Subscribe(cb)
  \/ \E cb \in Callbacks : Unsubscribe(cb)
  \/ \E d \in {-1, 1} : AdjustQuality(d)

SpecQM == InitQM /\ [][NextQM]_vars

\* the monitor in the host's frame loop, outside the calibration benchmark
Init == QMInit /\ PMInit /\ cores = 4 /\ Detached

Next ==
  \/ \E i \in Intervals : \E c \in CpuTimes(i) : EndFrame(i, c)
  \/ VisibilityChange

Spec == Init /\ [][Next]_vars

\* the frame loop on a device between 20 and 33 frames per second with an
\* occasional stall, in which frames that the monitor analyses keep arriving:
\* requestAnimationFrame re-arms itself at the end of every animate
LiveIntervals == {30, 50, 600}

AnalysedFrame ==
  \E i \in {j \in LiveIntervals : j <= OutlierMs} : \E c \in CpuTimes(i) : EndFrame(i, c)

NextLive ==
  \/ \E i \in LiveIntervals : \E c \in CpuTimes(i) : EndFrame(i, c)
  \/ VisibilityChange

SpecLive == Init /\ [][NextLive]_vars /\ WF_vars(AnalysedFrame)

\* endBenchmark on every sample multiset, core count and starting tier
BenchValues == <<20, 25, 40, 50, 60, 70>>

\* n copies of x
RECURSIVE Rep(_, _)
Rep(x, n) == IF n = 0 THEN <<>> ELSE <<x>> \o Rep(x, n - 1)

\* the samples with the given multiplicities, recorded slowest first
RECURSIVE Recorded(_, _)
Recorded(counts, k) ==
  IF k = 0 THEN <<>>
  ELSE Rep(BenchValues[k], counts[k]) \o Recorded(counts, k - 1)

InitBench ==
  /\ QMInit
  /\ avgFrameTime = 0
  /\ avgInterval = 0
  /\ consecutiveBadFrames = 0
  /\ consecutiveGoodFrames = 0
  /\ cooldown = 0
  /\ isHidden = FALSE
  /\ isBenchmarking = TRUE
  /\ warmupFrames = 0
  /\ interrupted = FALSE
  /\ Detached
  /\ cores \in 0..MaxCores
  /\ \E c1 \in 0..MaxSamples :
     \E c2 \in 0..(MaxSamples - c1) :
     \E c3 \in 0..(MaxSamples - c1 - c2) :
     \E c4 \in 0..(MaxSamples - c1 - c2 - c3) :
     \E c5 \in 0..(MaxSamples - c1 - c2 - c3 - c4) :
     \E c6 \in 0..(MaxSamples - c1 - c2 - c3 - c4 - c5) :
       frameTimes = Recorded(<<c1, c2, c3, c4, c5, c6>>, Len(BenchValues))

NextBench == EndBenchmark

SpecBench == InitBench /\ [][NextBench]_vars

\* the host's calibration: startBenchmark, frames, endBenchmark on the timer
NextCal ==
  \/ StartBenchmark
  \/ isBenchmarking /\ \E i \in Intervals : \E c \in CpuTimes(i) : EndFrame(i, c)
  \/ EndBenchmark

SpecCal == Init /\ [][NextCal]_vars

\* the whole life of the monitor on a slow machine: calibration, steady frames
\* and tab switches, with every frame slow (50 ms) or a resume gap (600 ms)
SlowIntervals == {50, 600}

NextSlow ==
  \/ StartBenchmark
  \/ EndBenchmark
  \/ VisibilityChange
  \/ \E i \in SlowIntervals : \E c \in CpuTimes(i) : EndFrame(i, c)

SpecSlow == Init /\ [][NextSlow]_vars

\* a whole run of the page whose video is ready at start-up, so that onReady
\* runs before the first frame: a calibration window on a device with an even
\* frame pace, the timer, and steady-state monitoring with mixed frames
\* afterwards. Eight cores: the hardware cap allows every tier.
CalPaces == {20, 50}

RunIntervals == {5, 50}

RunCores == {8}

\* every frame of the window so far took i ms
Paced(i) == elapsed = i * ((WarmupFrames - warmupFrames) + Len(frameTimes))

InitRun == QMInit /\ PMInit /\ cores \in RunCores /\ Detached

NextRun ==
  \/ OnReady
  \/ phase = "calibrating" /\ \E i \in CalPaces : \E c \in CpuTimes(i) :
       Paced(i) /\ Animate(i, c)
  \/ \E i \in CalPaces : Paced(i) /\ BenchmarkTimer(i)
  \/ phase = "entered" /\ \E i \in RunIntervals : \E c \in CpuTimes(i) : Animate(i, c)

SpecRun == InitRun /\ [][NextRun]_vars

\* the calibration window on a device that is slow throughout: onReady, frames
\* of 29 ms and more in any mixture, and the timer callback
TimerIntervals == {29, 40, 60, 600}

TimerCores == {2, 8}

InitTimer == QMInit /\ PMInit /\ cores \in TimerCores /\ Detached

NextTimer ==
  \/ OnReady
  \/ phase = "calibrating" /\ \E i \in TimerIntervals : \E c \in CpuTimes(i) : Animate(i, c)
  \/ \E i \in TimerIntervals : BenchmarkTimer(i)

SpecTimer == InitTimer /\ [][NextTimer]_vars

\* a wind simulator on its own: any renderer, every decay and diffusion
\* setting, a brush that comes and goes, short and long frames
MaxSteps == 3

WindSizes == {2}

WindParams ==
  [decay : {Undefined, <<0>>, <<50>>, <<100>>},
   diffusion : {Undefined, <<0>>, <<100>>},
   advection : {Undefined},
   injectionRadius : {<<50>>},
   injectionStrength : {Undefined},
   injectionStrengthMax : {Undefined}]

\* no pointer; a stroke through the centre of a texel; a stroke off-centre
Strokes ==
  {<<NoUv, <<0, 0>>>>, <<<<128, 128>>, <<12, 0>>>>, <<<<384, 200>>, <<-7, 9>>>>}

FrameDts == {16, 500}

\* renderers that end with linear and with nearest filtering
WindCaps == {DesktopCaps, [isWebGL2 |-> FALSE, extensions |-> {"WEBGL_color_buffer_float"}]}

InitWind ==
  /\ QMInit
  /\ currentTier = "MEDIUM"
  /\ PMInit
  /\ cores = 4
  /\ caps \in WindCaps
  /\ WFInit
  /\ HostInit
  /\ SceneAbsent

NextWind ==
  \/ \E size \in WindSizes : \E params \in WindParams : NewWindField(size, params)
  \/ \E st \in Strokes : \E dt \in FrameDts :
       lastDraw.count < MaxSteps /\ UpdateWindField(st[1], st[2], dt)

SpecWind == InitWind /\ [][NextWind]_vars

\* the scene under the quality manager: constructed on a phone-sized or a
\* desktop-sized viewport, then notified of every tier in any order
Viewports == {<<400, 800>>, <<1280, 640>>}

InitGrass ==
  /\ QMInit
  /\ PMInit
  /\ cores = 4
  /\ caps \in WindCaps
  /\ WFInit
  /\ HostInit
  /\ scene = NoScene
  /\ \E v \in Viewports : innerWidth = v[1] /\ innerHeight = v[2]

NextGrass ==
  \/ NewGrassScene
  \/ \E t \in TierNames : QualityChange(t)

SpecGrass == InitGrass /\ [][NextGrass]_vars

\* the scene through tier changes, window resizes and frames without a pointer
SceneViewports == {<<1280, 640>>, <<1024, 768>>, <<1024, 640>>, <<400, 800>>}

MaxFrames == 2

InitScene ==
  /\ QMInit
  /\ PMInit
  /\ cores = 4
  /\ caps = DesktopCaps
  /\ WFInit
  /\ HostInit
  /\ scene = NoScene
  /\ innerWidth = 1280
  /\ innerHeight = 640

NextScene ==
  \/ NewGrassScene
  \/ \E t \in TierNames : QualityChange(t)
  \/ \E v \in SceneViewports : Resize(v[1], v[2])
  \/ scene # NoScene /\ scene.time < MaxFrames /\ Frame(0, 16)

SpecScene == InitScene /\ [][NextScene]_vars

\* the pointer over a desktop scene at MEDIUM: near and far jumps of the
\* ground point between frames, the pointer leaving and coming back
MaxTime == 3

MousePoints == {<<0, 0>>, <<9, 9>>, <<12, 0>>, <<-300, 150>>, OffGround}

InitPointer ==
  /\ QMInit
  /\ currentTier = "MEDIUM"
  /\ PMInit
  /\ cores = 4
  /\ caps = DesktopCaps
  /\ WFInit
  /\ HostInit
  /\ scene = NoScene
  /\ innerWidth = 1280
  /\ innerHeight = 640

NextPointer ==
  \/ NewGrassScene
  \/ \E point \in MousePoints : PointerMove(point)
  \/ PointerOut
  \/ scene # NoScene /\ scene.time < MaxTime /\ Frame(0, 16)

SpecPointer == InitPointer /\ [][NextPointer]_vars

\* the scene scrolled through several plane extents, forwards and backwards
ScrollYs == {-3300, 0, 700, 2000, 4000, 4700, 8000}

InitScroll ==
  /\ QMInit
  /\ currentTier = "MEDIUM"
  /\ PMInit
  /\ cores = 4
  /\ caps = DesktopCaps
  /\ WFInit
  /\ HostInit
  /\ scene = NoScene
  /\ \E v \in Viewports : innerWidth = v[1] /\ innerHeight = v[2]

NextScroll ==
  \/ NewGrassScene
  \/ \E scrollY \in ScrollYs :
       scene # NoScene /\ scene.time < MaxTime /\ Frame(scrollY, 16)

SpecScroll == InitScroll /\ [][NextScroll]_vars

\* the constructor on every renderer
CapsSizes == {2, 8}

CapsParams ==
  [decay : {Undefined, <<100>>},
   diffusion : {Undefined},
   advection : {Undefined},
   injectionRadius : {Undefined},
   injectionStrength : {Undefined},
   injectionStrengthMax : {Undefined}]

InitCaps ==
  /\ QMInit
  /\ currentTier = "MEDIUM"
  /\ PMInit
  /\ cores = 4
  /\ caps \in AllCaps
  /\ WFInit
  /\ HostInit
  /\ SceneAbsent

NextCaps == \E size \in CapsSizes : \E params \in CapsParams : NewWindField(size, params)

SpecCaps == InitCaps /\ [][NextCaps]_vars

\* ------------------------------------------------------------------- claims
\* the call that just returned was op, made with the tier at `before`
Returned(op) == last.op = op

TierBefore == last.before[1]

ListenersBefore == last.before[2]

\* C1: adjustQuality(-1) at POTATO, and adjustQuality(+1) at ULTRA, returns
\* false, leaves the tier where it was and invokes no subscriber.
C1_BoundaryIsNoOp ==
  (/\ Returned("adjustQuality")
   /\ \/ last.arg = -1 /\ TierBefore = "POTATO"
      \/ last.arg = 1 /\ TierBefore = "ULTRA")
  => /\ last.ret = FALSE
     /\ currentTier = TierBefore
     /\ \A cb \in Callbacks : last.calls[cb] = <<>>

\* a second adjustQuality(-1) at POTATO, with a subscriber present
C1_Witness ==
  /\ Returned("adjustQuality") /\ last.arg = -1 /\ TierBefore = "POTATO"
  /\ listeners # {}
  /\ \A cb \in listeners : delivered[cb] = QualityProfiles["POTATO"]

\* C2: setTier(name) with a valid name is a no-op without notification when
\* name is the current tier; otherwise the tier becomes name and each
\* subscribed callback is invoked exactly once, with the profile of name.
C2_SetTierNotifiesOnChange ==
  (Returned("setTier") /\ last.arg \in TierNames)
  => IF last.arg = TierBefore
       THEN /\ currentTier = TierBefore
            /\ \A cb \in Callbacks : last.calls[cb] = <<>>
       ELSE /\ currentTier = last.arg
            /\ \A cb \in ListenersBefore : last.calls[cb] = <<QualityProfiles[last.arg]>>
            /\ \A cb \in Callbacks \ ListenersBefore : last.calls[cb] = <<>>

\* setTier changed the tier while two callbacks were subscribed
C2_Witness ==
  /\ Returned("setTier") /\ last.arg \in TierNames /\ last.arg # TierBefore
  /\ Cardinality(ListenersBefore) >= 2

\* C3: subscribe(cb) invokes cb at once with the current profile, and after
\* every call the profile last delivered to each subscribed callback is the
\* profile of the current tier.
C3_SubscribersSeeCurrentProfile ==
  /\ Returned("subscribe") =>
       /\ last.calls[last.arg] = <<QualityProfiles[TierBefore]>>
       /\ last.arg \in listeners
  /\ \A cb \in listeners : delivered[cb] = QualityProfiles[currentTier]

\* a callback subscribed after the tier had moved away from its initial value,
\* next to an earlier subscriber
C3_Witness ==
  /\ Returned("subscribe") /\ last.arg \notin ListenersBefore
  /\ ListenersBefore # {}
  /\ currentTier \in {"POTATO", "ULTRA"}

\* C4: adjustQuality(d) away from the boundary in direction d moves the tier
\* exactly one position in direction d, returns true and notifies each
\* subscriber once with the new tier's profile.
C4_AdjustMovesOneStep ==
  (/\ Returned("adjustQuality")
   /\ ~(last.arg = -1 /\ TierBefore = "POTATO")
   /\ ~(last.arg = 1 /\ TierBefore = "ULTRA"))
  => /\ IndexOf(currentTier) = IndexOf(TierBefore) + last.arg
     /\ last.ret = TRUE
     /\ \A cb \in ListenersBefore : last.calls[cb] = <<QualityProfiles[currentTier]>>
     /\ \A cb \in Callbacks \ ListenersBefore : last.calls[cb] = <<>>

\* a step up into ULTRA with a subscriber present
C4_Witness ==
  /\ Returned("adjustQuality") /\ last.arg = 1 /\ TierBefore = "HIGH"
  /\ currentTier = "ULTRA" /\ listeners # {}

\* this step is an endFrame in which the monitor called adjustQuality
RequestsNow == last'.op = "endFrame" /\ last'.requests # <<>>

\* this step is an endFrame that reached the lag test of analyze():
\* tab visible, interval not an outlier, no benchmark, no cooldown pending
SteadyFrameNow ==
  /\ last'.op = "endFrame"
  /\ ~isHidden /\ ~isBenchmarking /\ cooldown <= 0
  /\ avgInterval' # avgInterval \/ consecutiveBadFrames' # consecutiveBadFrames
     \/ consecutiveGoodFrames' # consecutiveGoodFrames \/ RequestsNow

\* C5: in steady state adjustQuality(-1) is called only on the 61st or a
\* later frame of an unbroken run of lagging frames (smoothed interval above
\* 40 ms), and a frame whose smoothed interval is at or below 40 ms restarts
\* the run.
C5_DowngradeOnlyAfterUnbrokenRun ==
  [][ /\ RequestsNow =>
           /\ last'.requests = <<Req("adjustQuality", -1)>>
           /\ isLagging(avgInterval')
           /\ consecutiveBadFrames + 1 > BadFrameLimit
           /\ ~interrupted
      /\ (SteadyFrameNow /\ ~isLagging(avgInterval')) => consecutiveBadFrames' = 0
    ]_vars

\* C6: a successful steady-state downgrade starts a 2000 ms cooldown and
\* clears the lag counter; while the cooldown is positive every frame either
\* is skipped or lowers the cooldown by the new smoothed interval, sends no
\* request, leaves both run counters alone and leaves the tier alone.
C6_CooldownAfterDowngrade ==
  [][ /\ (RequestsNow /\ last'.ret) =>
           /\ cooldown' = CooldownMs
           /\ consecutiveBadFrames' = 0
           /\ IndexOf(currentTier') = IndexOf(currentTier) - 1
      /\ (cooldown > 0 /\ ~isBenchmarking) =>
           /\ ~RequestsNow
           /\ currentTier' = currentTier
           /\ consecutiveBadFrames' = consecutiveBadFrames
           /\ consecutiveGoodFrames' = consecutiveGoodFrames
           /\ \/ cooldown' = cooldown /\ avgInterval' = avgInterval
              \/ last'.op = "endFrame" /\ cooldown' = cooldown - avgInterval'
    ]_vars

\* a lagging frame analysed in the middle of a cooldown
C6_Witness ==
  /\ last.op = "endFrame" /\ ~isHidden
  /\ cooldown > 0 /\ cooldown < CooldownMs - 1000
  /\ isLagging(avgInterval)
  /\ consecutiveBadFrames = 0

KthSmallest(data, k) ==
  LET vals == {data[i] : i \in DOMAIN data}
      below(v) == Cardinality({i \in DOMAIN data : data[i] < v})
      upTo(v) == Cardinality({i \in DOMAIN data : data[i] <= v})
  IN  CHOOSE v \in vals : below(v) <= k /\ k < upTo(v)

\* median and 90th percentile of the recorded samples
MedianSample == KthSmallest(frameTimes, Len(frameTimes) \div 2)

P90Sample == KthSmallest(frameTimes, (Len(frameTimes) * 9) \div 10)

\* endBenchmark has just returned from the percentile-based selection
Benchmarked == Returned("endBenchmark") /\ Len(frameTimes) >= MinSamples

\* C8: with at least 10 samples, a 90th percentile above 60 ms and a raw
\* median-based tier other than POTATO, the tier applied is one position below
\* the raw pick; with median 40 ms and p90 70 ms it is LOW or lower.
C8_TailLatencyStepsDown ==
  Benchmarked =>
    /\ (P90Sample > 60 /\ rawTier(MedianSample) # "POTATO") =>
         IndexOf(currentTier) = IndexOf(rawTier(MedianSample)) - 1
    /\ (MedianSample = 40 /\ P90Sample = 70) =>
         IndexOf(currentTier) <= IndexOf("LOW")

\* median 40 ms and p90 70 ms: raw pick LOW, applied POTATO
C8_Witness ==
  /\ Benchmarked /\ MedianSample = 40 /\ P90Sample = 70
  /\ rawTier(MedianSample) = "LOW" /\ currentTier = "POTATO"

\* the frame-rate breakpoints on 1000 / m: below 20 fps POTATO, 20 to below
\* 35 fps LOW, 35 to below 50 fps MEDIUM, 50 fps or more HIGH
BreakpointTier(m) ==
  CASE 1000 < 20 * m                    -> "POTATO"
    [] 20 * m <= 1000 /\ 1000 < 35 * m  -> "LOW"
    [] 35 * m <= 1000 /\ 1000 < 50 * m  -> "MEDIUM"
    [] 50 * m <= 1000                   -> "HIGH"

\* C9: with at least 10 samples the raw tier is the breakpoint tier of the
\* median sample (index floor(n/2) of the sorted intervals); the p90 step and
\* the hardware cap are applied to it and the result goes to setTier, in one
\* call, with no adjustQuality.
C9_MedianBreakpoints ==
  Benchmarked =>
    LET target == capTier(p90Tier(BreakpointTier(MedianSample), P90Sample),
                          maxTier(cores))
    IN  /\ last.requests = <<Req("setTier", target)>>
        /\ currentTier = target
        /\ rawTier(MedianSample) = BreakpointTier(MedianSample)

\* a median of exactly 50 ms (20 fps) gives LOW, applied by a jump from HIGH
C9_Witness ==
  /\ Benchmarked /\ MedianSample = 50 /\ P90Sample <= 60
  /\ TierBefore = "HIGH" /\ currentTier = "LOW"

\* the hardware cap: MEDIUM below 4 cores, HIGH for 4 to 7 cores or an
\* unavailable count, ULTRA from 8 cores
HardwareCap(hc) ==
  IF hc = 0 THEN "HIGH"
  ELSE IF hc < 4 THEN "MEDIUM"
  ELSE IF hc <= 7 THEN "HIGH"
  ELSE "ULTRA"

\* C10: with at least 10 samples the tier applied is the lower of the
\* stepped-down tier and the hardware cap, so it never exceeds the cap and the
\* cap never raises it.
C10_HardwareCap ==
  Benchmarked =>
    LET stepped == p90Tier(rawTier(MedianSample), P90Sample)
    IN  /\ IndexOf(currentTier) <= IndexOf(HardwareCap(cores))
        /\ IndexOf(currentTier) <= IndexOf(stepped)
        /\ currentTier \in {stepped, HardwareCap(cores)}

\* fewer than 4 cores and a benchmark that would give HIGH: MEDIUM is applied
C10_Witness ==
  /\ Benchmarked /\ cores \in 1..3
  /\ p90Tier(rawTier(MedianSample), P90Sample) = "HIGH"
  /\ currentTier = "MEDIUM"

\* C11: an endBenchmark that finds fewer than 10 recorded samples requests
\* MEDIUM and ends at MEDIUM, whatever the samples, the core count and the
\* tier before; the samples are left as recorded (slowest first, unsorted)
C11_FewSamplesDefaultMedium ==
  (Returned("endBenchmark") /\ Len(frameTimes) < MinSamples) =>
    /\ currentTier = "MEDIUM"
    /\ last.arg = "MEDIUM"
    /\ last.requests = <<Req("setTier", "MEDIUM")>>
    /\ \A i \in 1..(Len(frameTimes) - 1) : frameTimes[i] >= frameTimes[i + 1]

\* nine samples of 70 ms and one of 20 ms (median and p90 would give POTATO)
\* on a two-core machine that was at HIGH
C11_Witness ==
  /\ Returned("endBenchmark")
  /\ frameTimes = <<70, 70, 70, 70, 70, 70, 70, 70, 20>>
  /\ cores = 2
  /\ TierBefore = "HIGH"
  /\ currentTier = "MEDIUM"

\* ------------------------------------------------------------ hidden frames
\* C12: an endFrame made while the tab is hidden leaves the smoothed interval,
\* the smoothed CPU time, the benchmark samples, the warm-up count, both run
\* counters, the cooldown and the tier as they were and requests nothing
C12_HiddenFrameSamplesNothing ==
  [][(isHidden /\ last'.op = "endFrame") =>
       /\ UNCHANGED <<avgInterval, avgFrameTime, frameTimes, warmupFrames,
                       consecutiveBadFrames, consecutiveGoodFrames, cooldown,
                       currentTier>>
       /\ last'.requests = <<>>
       /\ last'.calls = NoCalls]_vars

\* a hidden frame during a benchmark that is past its warm-up and was started
\* while the cooldown of an earlier downgrade was still pending
C12_Witness ==
  /\ Returned("endFrame")
  /\ isHidden
  /\ isBenchmarking
  /\ warmupFrames = 0
  /\ Len(frameTimes) > 0
  /\ cooldown > 0

\* ---------------------------------------------------------------- wind field
\* the largest squared velocity magnitude over the texels of a field
FieldMagSq(field) ==
  IF DOMAIN field = {} THEN 0
  ELSE LET sq(t) == field[t][1] * field[t][1] + field[t][2] * field[t][2]
       IN  CHOOSE m \in {sq(t) : t \in DOMAIN field} :
             \A t \in DOMAIN field : sq(t) <= m

\* the step just taken was a simulator update with no brush active, under a
\* configuration with decay and diffusion in [0, 1]
UnbrushedStep ==
  /\ last'.op = "updateWindField"
  /\ ~brushActive(windField'.brushPos)
  /\ windField.decay \in 0..100
  /\ windField.diffusion \in 0..100

\* C18 as stated: every update without a brush makes the velocity magnitude of
\* the field strictly smaller, unless it was already zero
C18_StrictDecrease ==
  [][UnbrushedStep =>
       \/ FieldMagSq(velocity'[windField'.read]) < FieldMagSq(velocity[windField.read])
       \/ FieldMagSq(velocity[windField.read]) = 0
          /\ FieldMagSq(velocity'[windField'.read]) = 0]_vars

\* C18 amended: without a brush the velocity magnitude never grows, a field at
\* rest stays at rest, and the magnitude becomes strictly smaller when the
\* decay factor is below 1; with decay = 1 it may stay as it is
C18_DecreaseBelowFullDecay ==
  [][UnbrushedStep =>
       /\ FieldMagSq(velocity'[windField'.read]) <= FieldMagSq(velocity[windField.read])
       /\ (windField.decay < 100 /\ FieldMagSq(velocity[windField.read]) > 0) =>
            FieldMagSq(velocity'[windField'.read]) < FieldMagSq(velocity[windField.read])]_vars

\* a moving field that an unbrushed step at the default decay 0.95 and
\* diffusion 0.2 has slowed down but not stopped (the field the step sampled
\* is still in the write target)
C18_Witness ==
  /\ Returned("updateWindField")
  /\ windField.brushPos = NoBrush
  /\ windField.decay = 95
  /\ windField.diffusion = 20
  /\ FieldMagSq(velocity[windField.read]) > 0
  /\ FieldMagSq(velocity[windField.read]) < FieldMagSq(velocity[windField.write])

\* half-float render targets can be used: the texture type and a colour
\* buffer of that type are both available
HalfFloatUsable(c) ==
  /\ c.isWebGL2 \/ "OES_texture_half_float" \in c.extensions
  /\ c.isWebGL2 \/ "EXT_color_buffer_half_float" \in c.extensions

\* half-float textures can be filtered linearly
HalfFloatLinear(c) == c.isWebGL2 \/ "OES_texture_half_float_linear" \in c.extensions

\* float colour buffers are available
FloatColourBuffer(c) ==
  \/ c.isWebGL2 /\ "EXT_color_buffer_float" \in c.extensions
  \/ "WEBGL_color_buffer_float" \in c.extensions

\* C19: on every renderer the constructor completes with a type and a filter:
\* half-float with linear filtering when both are usable, half-float with
\* nearest filtering when only half-float is, and full float exactly when
\* half-float targets are unusable and float colour buffers exist
C19_FormatFallback ==
  /\ windField = NoWindField =>
       ENABLED (\E size \in CapsSizes : \E params \in CapsParams : NewWindField(size, params))
  /\ windField # NoWindField =>
       /\ windField.type \in {"HalfFloatType", "FloatType"}
       /\ windField.filter \in {"LinearFilter", "NearestFilter"}
       /\ windField.type = "FloatType" <=>
            (~HalfFloatUsable(caps) /\ FloatColourBuffer(caps))
       /\ HalfFloatUsable(caps) =>
            windField.filter = (IF HalfFloatLinear(caps) THEN "LinearFilter"
                                ELSE "NearestFilter")

\* a WebGL1 renderer without half-float textures but with float colour
\* buffers ends with full float
C19_Witness ==
  /\ Returned("newWindField")
  /\ ~caps.isWebGL2
  /\ caps.extensions = {"EXT_color_buffer_half_float", "WEBGL_color_buffer_float"}
  /\ windField.type = "FloatType"
  /\ windField.filter = "NearestFilter"

\* C20: the read and write roles are always held by rtA and rtB, one each; an
\* update draws into the target that held the write role while sampling the
\* one that held the read role, leaves the sampled target as it was, and has
\* swapped the roles when it returns
C20_PingPong ==
  [][/\ windField' # NoWindField =>
          {windField'.read, windField'.write} = RenderTargets
     /\ last'.op = "updateWindField" =>
          /\ lastDraw'.target = windField.write
          /\ lastDraw'.sampled = windField.read
          /\ lastDraw'.target # lastDraw'.sampled
          /\ velocity'[windField.read] = velocity[windField.read]
          /\ windField'.read = windField.write
          /\ windField'.write = windField.read]_vars

\* two updates in, the roles are back where they started and the two targets
\* hold different fields
C20_Witness ==
  /\ Returned("updateWindField")
  /\ lastDraw.count = 2
  /\ windField.read = "rtA"
  /\ lastDraw.target = "rtA"
  /\ velocity["rtA"] # velocity["rtB"]
  /\ velocity["rtB"] # ClearedField

\* -------------------------------------------------------------- grass scene
\* the blade budget of the geometry in use: the mobile one if the viewport was
\* narrower than 768 px when initGrass built it
BudgetAtBuild ==
  IF scene.grass.builtWidth < 768 THEN mobileMaxGrassCount ELSE maxGrassCount

\* the instances the last geometry build allocated: ceil(maxBlades / clumpSize)
AllocatedAtBuild ==
  (BudgetAtBuild + scene.currentClumpSize - 1) \div scene.currentClumpSize

\* the scene has a mesh
HasGrass == scene # NoScene /\ scene.grass # NoGrass

\* C13: the active instance count never exceeds the number of instances the
\* last geometry build allocated
C13_CountWithinAllocation ==
  HasGrass =>
    /\ scene.grass.maxClumpCount = AllocatedAtBuild
    /\ scene.grass.count <= AllocatedAtBuild

\* the scene was just notified of a grass-enabled tier
NotifiedEnabled ==
  /\ HasGrass
  /\ Returned("onQualityChange") \/ Returned("newGrassScene")
  /\ QualityProfiles[currentTier].enableGrass

\* C14: after a notification for a grass-enabled tier the active instance
\* count is floor(min(grassCount, allocated blade budget) / clumpSize), with
\* or without a rebuild of the geometry
C14_CountIsMinOfRequestAndBudget ==
  NotifiedEnabled =>
    scene.grass.count =
      Min(QualityProfiles[currentTier].grassCount, BudgetAtBuild)
        \div scene.currentClumpSize

\* C15: a tier-change notification leaves the simulator at the new profile's
\* windResolution: a simulator of another resolution is disposed and replaced
\* by a fresh one of that resolution, one of the same resolution is kept
C15_WindResolutionFollowsTier ==
  [][last'.op = "onQualityChange" =>
       LET res == QualityProfiles[currentTier'].windResolution IN
       /\ windField'.size = res
       /\ scene'.windResolution = res
       /\ windField.size # res =>
            /\ scene'.disposed = dispose(windField)
            /\ ~windField'.disposed
            /\ velocity' = clear
       /\ windField.size = res =>
            /\ windField' = windField
            /\ scene'.disposed = NoWindField]_vars

\* C16: the displacement vector a frame hands to the wind simulator is never
\* longer than bladeHeight * maxWindOffset, however far the ground point moved
C16_DisplacementClamped ==
  (scene # NoScene) =>
    100 * 100 * (scene.handed[1] * scene.handed[1] + scene.handed[2] * scene.handed[2])
      <= (bladeHeight * maxWindOffset) * (bladeHeight * maxWindOffset)

\* the ground point jumped across the plane between two frames and the
\* simulator was handed a vector of the full permitted length
C16_Witness ==
  /\ Returned("frame")
  /\ scene.lastGroundPoint = <<-300, 150>>
  /\ scene.handed # <<0, 0>>
  /\ windField.brushDir = scene.handed
  /\ scene.handed[1] * scene.handed[1] + scene.handed[2] * scene.handed[2] > 100

\* the normalized scroll offset of a scroll position, before wrapping
ScrollNorm(scrollY) ==
  scrollY * scrollNormPerPixel * Min(aspectOf(innerWidth, innerHeight), 150)

\* C17: a frame whose scroll position differs from that of the frame before
\* by a whole number of plane extents (normalized offsets differing by an
\* integer) gives every instance the same effective depth as before
C17_FullExtentScrollIsIdentity ==
  [][(/\ last'.op = "frame"
      /\ scene.effectiveZ # <<>>
      /\ (ScrollNorm(scene'.currentScrollY) - ScrollNorm(scene.currentScrollY))
           % ScrollDen = 0) =>
       scene'.effectiveZ = scene.effectiveZ]_vars

\* on the narrow viewport one plane extent is 4000 px: a frame at 4700 px
\* after one at 700 px, with instances wrapped to the far side
C17_Witness ==
  /\ Returned("frame")
  /\ last.arg = <<700, 4700>>
  /\ innerWidth = 400
  /\ scene.effectiveZ = effectiveZ(175000)
  /\ scene.effectiveZ[1] = 325000

\* ------------------------------------------------------------------- C21
\* the monitor has just changed the tier: a steady-state downgrade that
\* succeeded, or a benchmark result different from the tier in force
MonitorChangedTier ==
  /\ last.op \in {"endFrame", "endBenchmark"}
  /\ last.requests # <<>>
  /\ currentTier # TierBefore

\* the tab has just returned to the foreground
ReturnedToForeground == last.op = "visibilitychange" /\ ~isHidden

\* the values the constructor gives the statistics
StatisticsInitial ==
  avgInterval = 0 /\ avgFrameTime = 0 /\ consecutiveBadFrames = 0

\* C21: whenever the tab returns to the foreground, and after every tier
\* change the monitor causes (steady-state downgrade or benchmark result),
\* the smoothed frame interval, the smoothed CPU time and the lag run
\* counter are back at their initial values
C21_StatisticsReset ==
  (ReturnedToForeground \/ MonitorChangedTier) => StatisticsInitial

\* ------------------------------------------------------------------- C22
\* C22: the steady-state monitor never calls adjustQuality(+1): no endFrame
\* requests anything but adjustQuality(-1), and from the moment the timer
\* callback has applied the benchmark's tier the tier index never increases,
\* whatever frame timings follow
C22_NoUpgradeAfterBenchmark ==
  [][/\ last'.op = "endFrame" =>
          \A k \in 1..Len(last'.requests) :
            last'.requests[k] = Req("adjustQuality", -1)
     /\ phase = "entered" => IndexOf(currentTier') <= IndexOf(currentTier)]_vars

\* after the benchmark, a run of smooth frames at a tier below ULTRA: the
\* frames on which the disabled upgrade branch would have acted
C22_Witness ==
  /\ phase = "entered"
  /\ last.op = "endFrame"
  /\ isSmooth(avgInterval)
  /\ cooldown <= 0
  /\ consecutiveGoodFrames = MaxGood
  /\ currentTier = "MEDIUM"

\* ------------------------------------------------------------------- C23
\* an endFrame made between startBenchmark and endBenchmark
BenchmarkFrameStep == isBenchmarking /\ last'.op = "endFrame"

\* that endFrame analysed its frame: the tab was visible and the frame left
\* a trace in the averages, the warm-up counter or the samples
AnalysedStep ==
  /\ ~isHidden
  /\ \/ avgInterval' # avgInterval
     \/ warmupFrames' # warmupFrames
     \/ frameTimes' # frameTimes

\* C23: between startBenchmark and endBenchmark the monitor only calibrates:
\* startBenchmark leaves 30 frames to discard and no sample; each of the first
\* 30 analysed frames is discarded; every later analysed frame appends exactly
\* its raw interval (the value that entered the moving average, not the
\* average) as one sample; and no frame requests anything of the quality
\* manager or changes the tier, the run counters or the cooldown, even when
\* it is lagging
C23_BenchmarkOnlyCalibrates ==
  [][/\ last'.op = "startBenchmark" => warmupFrames' = 30 /\ frameTimes' = <<>>
     /\ isBenchmarking' /\ frameTimes' # <<>> => warmupFrames' = 0
     /\ BenchmarkFrameStep =>
          /\ last'.requests = <<>>
          /\ UNCHANGED <<currentTier, consecutiveBadFrames, consecutiveGoodFrames,
                         cooldown, isBenchmarking>>
     /\ BenchmarkFrameStep /\ AnalysedStep =>
          IF warmupFrames > 0
            THEN warmupFrames' = warmupFrames - 1 /\ frameTimes' = frameTimes
            ELSE /\ warmupFrames' = 0
                 /\ \E i \in SlowIntervals :
                      /\ avgInterval' = Ema(avgInterval, i)
                      /\ frameTimes' = Append(frameTimes, i)]_vars

\* a lagging frame has been recorded as a sample, after the 30 discarded ones,
\* in a benchmark started while a cooldown was pending
C23_Witness ==
  /\ isBenchmarking
  /\ last.op = "endFrame"
  /\ ~isHidden
  /\ warmupFrames = 0
  /\ Len(frameTimes) = 2
  /\ isLagging(avgInterval)
  /\ avgInterval # frameTimes[2]
  /\ cooldown > 0

\* ------------------------------------------------------------------- C24
\* the mesh in the scene before the step was disposed of and a new one
\* created and laid out: all its allocated instances are active and have
\* just been given a transform
RebuiltStep ==
  /\ scene'.rebuilt
  /\ scene'.grass.count = scene'.grass.maxClumpCount
  /\ scene'.grass.laidOut = scene'.grass.count

\* C24: a quality notification rebuilds the grass geometry only if the
\* profile's clump size differs from the clump size of the current geometry
\* (or there is no geometry yet); a notification for a grass-enabled tier of
\* the same clump size writes grass.count and neither re-creates the mesh nor
\* rewrites instance transforms
C24_RebuildOnlyOnClumpChange ==
  [][last'.op \in {"newGrassScene", "onQualityChange"} =>
       LET profile == QualityProfiles[currentTier']
           before == IF scene = NoScene THEN NoGrass ELSE scene.grass
       IN
       /\ scene'.rebuilt =>
            /\ RebuiltStep
            /\ \/ before = NoGrass
               \/ before.clumpSize # clumpSizeOf(profile)
       /\ (/\ profile.enableGrass
           /\ before # NoGrass
           /\ before.clumpSize = clumpSizeOf(profile)) =>
            /\ ~scene'.rebuilt
            /\ scene'.grass =
                 [before EXCEPT
                    !.visible = TRUE,
                    !.count = Min(profile.grassCount, scene.maxGrassCount)
                                \div before.clumpSize]]_vars

\* a notification changed the instance count of a geometry built earlier:
\* 1200 active instances, transforms still those of the 2500 laid out at build
C24_Witness ==
  /\ last.op = "onQualityChange"
  /\ currentTier = "HIGH"
  /\ ~scene.rebuilt
  /\ scene.grass # NoGrass
  /\ scene.grass.count = 1200
  /\ scene.grass.laidOut = 2500

\* ------------------------------------------------------------------- C25
\* the frame about to run has no ground point under the pointer
NoGroundHit == ~scene.isHovering \/ scene.mouse = OffGround

\* C25: on every frame in which the pointer is not hovering or the raycast
\* misses the ground, the simulator gets the inactive brush position (-1,-1)
\* together with a zero brush direction, no texel receives an injection and
\* the remembered ground point is cleared; on every other frame the brush
\* position and the direction of that same frame are written together
C25_NoBrushWithoutGroundHit ==
  [][last'.op = "frame" =>
       IF NoGroundHit
         THEN /\ windField'.brushPos = NoBrush
              /\ windField'.brushDir = <<0, 0>>
              /\ ~brushActive(windField'.brushPos)
              /\ \A t \in Texels(windField'.size) :
                   inject(vUv(windField'.size, t), windField') = <<0, 0>>
              /\ scene'.lastGroundPoint = NoPoint
         ELSE /\ brushActive(windField'.brushPos)
              /\ windField'.brushDir = scene'.handed
              /\ scene'.lastGroundPoint = scene.mouse]_vars

\* a frame without a ground hit has replaced an active brush by the sentinel
\* while the field still carries the velocity injected by earlier frames
C25_Witness ==
  /\ last.op = "frame"
  /\ scene.isHovering
  /\ scene.mouse = OffGround
  /\ windField.brushPos = NoBrush
  /\ DOMAIN velocity[texture(windField)] # {}

\* ------------------------------------------------------------------- C26
\* C26: once the scene exists, and so after every GrassScene.update and after
\* every re-creation of the simulator, the blades' wind-texture uniform is
\* the read target of the scene's current simulator, which is the target the
\* latest draw call wrote; it is never a target of a disposed simulator and
\* never the target the next draw call will write
C26_WindTexIsCurrentReadTarget ==
  scene # NoScene =>
    /\ scene.windTex = textureObject(windField)
    /\ scene.windTex.sim = windField.size
    /\ scene.windTex.target = windField.read
    /\ scene.windTex.target # windField.write
    /\ ~windField.disposed
    /\ scene.disposed # NoWindField => scene.windTex.sim # scene.disposed.size
    /\ lastDraw # NoDraw => lastDraw.target = scene.windTex.target

\* a frame on a simulator that replaced the one an earlier frame had drawn with
C26_Witness ==
  /\ scene # NoScene
  /\ last.op = "frame"
  /\ scene.time = 2
  /\ lastDraw.count = 1
  /\ scene.windTex = [sim |-> windField.size, target |-> "rtB"]

\* ------------------------------------------------------------------- C27
\* the extents for which the matrices of the first n instances were computed
extentsOf(layout, n) ==
  {layout[k][2] : k \in {j \in 1..Len(layout) :
                           (IF j = 1 THEN 0 ELSE layout[j - 1][1]) < n}}

\* C27: after any sequence of resizes and tier changes, every active
\* instance (index below grass.count) carries a matrix computed from the
\* ground's current extent, also the instances that a count increase made
\* active after a resize
C27_ActiveInstancesMatchGround ==
  (scene # NoScene /\ scene.grass # NoGrass) =>
    extentsOf(scene.grass.layout, scene.grass.count)
      = {(planeSize * scene.groundScaleX) \div 100}

\* ------------------------------------------------------------------- C28
\* C28: in a run driven by the hardware heuristic, the calibration benchmark
\* and steady-state monitoring the tier is never ULTRA: the heuristic gives
\* MEDIUM or HIGH, the benchmark asks for HIGH at most, and a monitored frame
\* never asks for a step up
C28_UltraNeverReached ==
  /\ currentTier # "ULTRA"
  /\ phase = "loading" => currentTier \in {"MEDIUM", "HIGH"}
  /\ last.op = "endBenchmark" => IndexOf(last.arg) <= IndexOf("HIGH")
  /\ last.op = "endFrame" => \A k \in 1..Len(last.requests) :
                                last.requests[k] = Req("adjustQuality", -1)

\* the benchmark has run on a device without a core cap at 50 frames per
\* second and applied the best tier it can select
C28_Witness ==
  /\ phase = "entered"
  /\ last.op = "endBenchmark"
  /\ cores = 8
  /\ Len(frameTimes) >= MinSamples
  /\ last.arg = "HIGH"
  /\ currentTier = "HIGH"

\* ------------------------------------------------------------------- C29
\* C29: with no benchmark running and analysed frames arriving for ever, if
\* from some frame on the tab stays visible and the smoothed interval stays
\* above 40 ms, the tier eventually is POTATO and stays POTATO
C29_LaggingReachesPotato ==
  <>[](~isHidden /\ isLagging(avgInterval)) => <>[](currentTier = "POTATO")

\* a lagging run has reached its limit at POTATO: the step down was asked for
\* and refused, and the tier stays where it is
C29_Witness ==
  /\ currentTier = "POTATO"
  /\ ~isHidden
  /\ isLagging(avgInterval)
  /\ last.op = "endFrame"
  /\ last.requests = <<Req("adjustQuality", -1)>>
  /\ last.before[1] = "POTATO"

\* ------------------------------------------------------------------- C30
\* C30: between startBenchmark and the callback of the 800 ms timer, with
\* every frame interval at 29 ms or more, at most 28 frames are analysed, all
\* of them are warm-up frames and no sample is recorded; the callback then
\* sets MEDIUM, so the benchmark assigns neither LOW nor POTATO
C30_SlowDeviceGetsMedium ==
  /\ phase = "calibrating" =>
        /\ frameTimes = <<>>
        /\ WarmupFrames - warmupFrames <= 28
  /\ phase = "entered" =>
        /\ last.op = "endBenchmark"
        /\ frameTimes = <<>>
        /\ WarmupFrames - warmupFrames <= 28
        /\ last.arg = "MEDIUM"
        /\ last.requests = <<Req("setTier", "MEDIUM")>>
        /\ currentTier = "MEDIUM"

\* the timer callback after 28 analysed frames of 29 ms, on a device whose
\* frame rate is below the LOW breakpoint: the tier goes from HIGH to MEDIUM
C30_Witness ==
  /\ phase = "entered"
  /\ last.op = "endBenchmark"
  /\ WarmupFrames - warmupFrames = 28
  /\ cores = 8
  /\ last.before[1] = "HIGH"
  /\ currentTier = "MEDIUM"


====
